---- MODULE Spec2Model ----
(***************************************************************************)
(* Password game: the rule pool, the rule-set builder, the validation      *)
(* engine (ValidatePassword), the sorter (GetSortedVisibleRules), the      *)
(* change analyzer (analyzeRuleChanges) and the HTTP handlers that drive   *)
(* them (HandleRegisterUser, HandlePasswordGame, HandleValidate).          *)
(***************************************************************************)
EXTENDS Integers, Sequences, FiniteSets, TLC

VARIABLES
    assignmentsFile,    \* content of rules/assignments.json on disk
    assignmentsCache,   \* rules.assignmentsCache
    assignmentsLoaded,  \* rules.assignmentsLoaded
    poolLoaded,         \* rules.poolLoaded
    rulePool,           \* rules.rulePool: the elements of the cached pool slice
    ruleSets,           \* the elements of the Rules slice of each live RuleSet
    session,            \* the UserSessions entry of the client's cookie
    dbRuleReached,      \* users.rule_reached as last written by UpdateUserProgress
    dbCalls,            \* ruleReached arguments of the latest handler's UpdateUserProgress calls
    clientSat,          \* ruleStateManager.currentStates.satisfied in the browser
    clientVis,          \* ruleStateManager.currentStates.visible in the browser
    carried,            \* the latest request sent back the browser's stored states
    rules,              \* ruleSet.Rules after the latest operation
    ruleChanges,        \* RuleChangeAnalysis of the latest pass
    sortedRules,        \* GetSortedVisibleRules of the latest operation
    panicked,           \* the latest handler ended in a runtime panic
    op,                 \* the latest operation
    argPassword,        \* password argument of a direct ValidatePassword call
    argPreviousStates,  \* previousStates / previousSatisfied argument of a direct call
    argPreviousVisible, \* previousVisible argument of a direct call
    cyberSecRules,      \* rules.cyberSecRules, shared by every session
    currentValues,      \* the package variables the validators of rules 13, 15, 17, 18, 19 read
    wordleCache,        \* wordle.cache
    goroutines          \* what each goroutine of the server is running, and where it is

vars == <<assignmentsFile, assignmentsCache, assignmentsLoaded, poolLoaded,
          rulePool, ruleSets, session,
          dbRuleReached, dbCalls, clientSat, clientVis, carried, rules,
          ruleChanges, sortedRules, panicked, op, argPassword,
          argPreviousStates, argPreviousVisible, cyberSecRules, currentValues,
          wordleCache, goroutines>>

sharedVars == <<currentValues, wordleCache, goroutines>>

requestVars == <<assignmentsFile, session, dbRuleReached, dbCalls, clientSat,
                 clientVis, carried, rules, ruleChanges, sortedRules, panicked,
                 op, argPassword, argPreviousStates, argPreviousVisible>>

(***************************************************************************)
(* Bounds                                                                  *)
(***************************************************************************)
\* the pool is modelled by its first NumBasic "basic" rules (IDs 1..) and
\* its last two rules, 24 and 25
NumBasic == 2
\* longest ID list of an assignments.json entry
MaxListLen == 3

\* an ID that assignments.json may name although the pool has no such rule
AbsentID == 26

PoolIDs == (1..NumBasic) \cup {24, 25}

(***************************************************************************)
(* rules/pool.go                                                           *)
(***************************************************************************)
CategoryOf(id) ==
    IF id <= 6 THEN "basic"
    ELSE IF id <= 12 THEN "intermediate"
    ELSE IF id \in {13, 15, 16, 17, 18} THEN "hard"
    ELSE "expert"

NewRule(id) ==
    [ID |-> id, Category |-> CategoryOf(id), IsSatisfied |-> FALSE,
     IsVisible |-> FALSE, NewlySatisfied |-> FALSE, NewlyRevealed |-> FALSE]

\* the rules of a rule set as NewRuleSet returns them, all flags false
FreshRules(rs) == [i \in DOMAIN rs |-> NewRule(rs[i].ID)]

RECURSIVE AscendingSeq(_)
AscendingSeq(S) ==
    IF S = {} THEN <<>>
    ELSE LET m == CHOOSE x \in S : \A y \in S : x <= y
         IN <<m>> \o AscendingSeq(S \ {m})

\* the cached pool: rules in ascending ID order, all flags at their zero value
Pool == [i \in 1..Cardinality(PoolIDs) |-> NewRule(AscendingSeq(PoolIDs)[i])]

\* the requests that can hold a RuleSet at the same time
Holders == {1, 2}

\* no request holds a RuleSet
NoRuleSets == [h \in Holders |-> <<>>]

\* the rules whose Validator searches the password for some content and so
\* rejects the empty password (rules 2..23)
ContentIDs == PoolIDs \cap (2..23)

\* a password is abstracted to its length, the set of rule IDs whose
\* Validator accepts it for a reason other than its length, the number of
\* black squares in it (each is 3 bytes long) and whether it has fewer than 3
\* characters that are not spaces
PwLens == {0, 2, 8}
SquareCounts == {0, 2}
Passwords ==
    {pw \in [len : PwLens, holds : SUBSET (PoolIDs \ {1}),
             squares : SquareCounts, blank : {FALSE}] :
        /\ pw.len = 0 => pw.holds \cap ContentIDs = {}
        /\ pw.len < 3 => 25 \notin pw.holds
        /\ pw.len < 3 * pw.squares => pw.squares = 0}

\* a password of 8 spaces
BlankPassword == [len |-> 8, holds |-> {}, squares |-> 0, blank |-> TRUE]

\* Rule.Validator: rule 1 is len(t) >= 8; Rule25InsiderThreat accepts every
\* password shorter than 3; the others are opaque predicates on the content.
\* What Rule24RansomwareAttack and Rule25InsiderThreat return also depends on
\* cyberSecRules: pw.holds records what they return in the pass at hand
Validator(id, pw) ==
    IF id = 1 THEN pw.len >= 8
    ELSE IF id = 25 THEN pw.len < 3 \/ 25 \in pw.holds
    ELSE id \in pw.holds

RECURSIVE GetRulesByCategoryFrom(_, _)
GetRulesByCategoryFrom(i, category) ==
    IF i > Len(Pool) THEN <<>>
    ELSE (IF Pool[i].Category = category THEN <<Pool[i]>> ELSE <<>>)
         \o GetRulesByCategoryFrom(i + 1, category)

GetRulesByCategory(category) == GetRulesByCategoryFrom(1, category)

RECURSIVE GetRulesByIDsFrom(_, _)
GetRulesByIDsFrom(i, idSet) ==
    IF i > Len(Pool) THEN <<>>
    ELSE (IF Pool[i].ID \in idSet THEN <<Pool[i]>> ELSE <<>>)
         \o GetRulesByIDsFrom(i + 1, idSet)

\* GetRulesByIDs taking one pool rule per entry of the list, in list order
RECURSIVE GetRulesByIDsPerEntry(_)
GetRulesByIDsPerEntry(ids) ==
    IF ids = <<>> THEN <<>>
    ELSE SelectSeq(Pool, LAMBDA r : r.ID = Head(ids))
         \o GetRulesByIDsPerEntry(Tail(ids))

GetRulesByIDs(ids) == GetRulesByIDsFrom(1, {ids[k] : k \in DOMAIN ids})

(***************************************************************************)
(* rules/intermediate: cyberSecRules, Rule24RansomwareAttack,              *)
(* Rule25InsiderThreat                                                     *)
(***************************************************************************)
\* the fields of cyberSecRules that rules 24 and 25 read; imposterIndices is
\* kept as the number of indices, mutexHeld is set when a call never returns
\* and so never unlocks cyberSecRules.mutex
ZeroCyberSecRules ==
    [blackboxRuleValidated |-> FALSE, blackboxInjectionStarted |-> FALSE,
     blackboxMinimumInjected |-> FALSE, imposterRuleValidated |-> FALSE,
     imposterIndices |-> 0, lastPasswordLength |-> 0, mutexHeld |-> FALSE]

\* the result of a predicate call: what it returns, whether it returns at
\* all, and cyberSecRules after it
Returned(result, csr) == [result |-> result, returns |-> TRUE, csr |-> csr]
NeverReturns(csr) ==
    [result |-> FALSE, returns |-> FALSE, csr |-> [csr EXCEPT !.mutexHeld = TRUE]]

Rule24RansomwareAttack(csr, pw) ==
    IF csr.blackboxRuleValidated THEN Returned(TRUE, csr)
    ELSE IF ~csr.blackboxInjectionStarted
    THEN Returned(FALSE, [csr EXCEPT !.blackboxInjectionStarted = TRUE])
    ELSE LET minimum == csr.blackboxMinimumInjected \/ pw.squares >= 2
             injected == [csr EXCEPT !.blackboxMinimumInjected = minimum]
         IN IF minimum /\ pw.squares = 0
            THEN Returned(TRUE, [injected EXCEPT !.blackboxRuleValidated = TRUE])
            ELSE Returned(FALSE, injected)

\* generateImposterIndices: up to 3 random indices of characters that are not
\* spaces; the loop does not end when the password has fewer such characters
\* than it looks for
generateImposterIndices(csr, pw) ==
    IF pw.len < 3 THEN Returned(FALSE, [csr EXCEPT !.imposterIndices = 0])
    ELSE IF pw.blank THEN NeverReturns(csr)
    ELSE Returned(FALSE, [csr EXCEPT !.imposterIndices = 3])

\* the indices are random, so whether every character at an index stored by
\* an earlier call is gone is a property of the password: 25 \in pw.holds;
\* the characters of the password the indices were just chosen in are in place
Rule25InsiderThreat(csr, pw) ==
    IF csr.imposterRuleValidated THEN Returned(TRUE, csr)
    ELSE LET generates == pw.len # csr.lastPasswordLength /\ csr.imposterIndices = 0
             generated == IF generates THEN generateImposterIndices(csr, pw)
                          ELSE Returned(FALSE, csr)
             c == IF generates
                  THEN [generated.csr EXCEPT !.lastPasswordLength = pw.len]
                  ELSE csr
         IN IF ~generated.returns THEN generated
            ELSE IF pw.len < 3 \/ c.imposterIndices = 0 THEN Returned(TRUE, c)
            ELSE IF ~generates /\ 25 \in pw.holds
            THEN Returned(TRUE, [c EXCEPT !.imposterRuleValidated = TRUE])
            ELSE Returned(FALSE, c)

\* pw.holds records for rules 24 and 25 what their predicates return on pw
\* while cyberSecRules is csr
RecordsOutcomes(csr, pw) ==
    /\ 24 \in pw.holds <=> Rule24RansomwareAttack(csr, pw).result
    /\ pw.len >= 3 => (25 \in pw.holds <=> Rule25InsiderThreat(csr, pw).result)

\* the rule with the given ID had its Validator called in the pass
Invoked(validated, id) ==
    \E i \in DOMAIN validated : validated[i].ID = id /\ validated[i].IsVisible

\* cyberSecRules after a ValidatePassword pass that left the rules validated
CyberSecRulesAfter(csr, pw, validated) ==
    LET c24 == IF Invoked(validated, 24) THEN Rule24RansomwareAttack(csr, pw).csr
               ELSE csr
    IN IF Invoked(validated, 25) THEN Rule25InsiderThreat(c24, pw).csr ELSE c24

\* cyberSecRules after ResetCyberSecurityRules, which first locks the mutex
ResetCyberSecurityRules == ZeroCyberSecRules

\* the states of cyberSecRules the predicates can leave behind
CyberSecStates ==
    {c \in [blackboxRuleValidated : BOOLEAN, blackboxInjectionStarted : BOOLEAN,
            blackboxMinimumInjected : BOOLEAN, imposterRuleValidated : BOOLEAN,
            imposterIndices : {0, 3}, lastPasswordLength : PwLens,
            mutexHeld : {FALSE}] :
        /\ c.blackboxMinimumInjected => c.blackboxInjectionStarted
        /\ c.blackboxRuleValidated => c.blackboxMinimumInjected
        /\ c.imposterIndices = 3 <=> c.lastPasswordLength >= 3
        /\ c.imposterRuleValidated => c.imposterIndices = 3}

(***************************************************************************)
(* Shared predicate state: the current captcha, math constant, colour, QR  *)
(* word and chess move, the Wordle cache, and the validators reading them  *)
(***************************************************************************)
\* the values a refresh can produce; "" is a value that was never set
Words == {"a"}
Unset == ""

\* the part of a password these validators look at: the words it contains.
\* For rule 13 a word stands for the first three digits of the constant, for
\* rule 15 for the digits of the captcha, for rule 18 for the hex code
\* without its leading #
Texts == SUBSET Words

\* strings.Contains: every string contains the empty string
Contains(text, w) == w = "" \/ w \in text

ValidateMathConstant(constant, text) ==
    IF constant = "" THEN FALSE ELSE Contains(text, constant)

\* captcha.VerifyString finds no captcha under the ID ""
ValidateCaptcha(captchaID, text) ==
    IF captchaID = "" THEN FALSE
    ELSE \E candidate \in text : candidate = captchaID

ValidateQRCodeWord(word, text) ==
    IF word = "" THEN FALSE ELSE Contains(text, word)

ValidateHexColor(hexCode, text) ==
    IF hexCode = "" THEN FALSE ELSE Contains(text, hexCode)

\* ValidateChessMove without the test for an empty best move
ValidateChessMoveNoGuard(bestMove, text) == Contains(text, bestMove)

ValidateChessMove(bestMove, text) ==
    IF bestMove = "" THEN FALSE ELSE Contains(text, bestMove)

\* the pool rules whose validators read a package variable under RLock, the
\* variable each reads and the mutex that guards it
ReadLockedIDs == {13, 15, 17, 18, 19}

CurrentOf(id) ==
    CASE id = 13 -> "currentConstant"
      [] id = 15 -> "currentCaptchaID"
      [] id = 17 -> "currentQRWord"
      [] id = 18 -> "currentColor"
      [] id = 19 -> "currentBestMove"

MutexOf(id) ==
    CASE id = 13 -> "constantsMutex"
      [] id = 15 -> "captchaMutex"
      [] id = 16 -> "cache.mu"
      [] id = 17 -> "qrMutex"
      [] id = 18 -> "colorsMutex"
      [] id = 19 -> "chessMutex"
      [] id \in {24, 25} -> "cyberSecRules.mutex"

SharedValidator(id, value, text) ==
    CASE id = 13 -> ValidateMathConstant(value, text)
      [] id = 15 -> ValidateCaptcha(value, text)
      [] id = 17 -> ValidateQRCodeWord(value, text)
      [] id = 18 -> ValidateHexColor(value, text)
      [] id = 19 -> ValidateChessMove(value, text)

CurrentNames == {CurrentOf(id) : id \in ReadLockedIDs}

\* wordle.cache before any fetch, the answer the API gives today and the word
\* getFallbackAnswer computes for today
EmptyWordleCache == [Answer |-> "", Date |-> ""]
Today == "today"
TodaysAnswer == "a"
FallbackAnswer == "b"

\* ValidateWordleAnswer once GetTodaysAnswer has returned answer
ValidateWordleAnswer(answer, text) == Contains(text, answer)

\* the refreshes that compute the new value and then lock to assign it, and
\* the ones that lock first and compute while holding the lock
ComputeThenSwap == {"RefreshMathConstant", "RefreshColor", "RefreshQRCode"}
LockThenCompute == {"GenerateNewCaptcha", "GenerateNewChessPosition"}
Refreshers == ComputeThenSwap \cup LockThenCompute

RefreshID(fn) ==
    CASE fn = "RefreshMathConstant" -> 13
      [] fn = "GenerateNewCaptcha" -> 15
      [] fn = "RefreshQRCode" -> 17
      [] fn = "RefreshColor" -> 18
      [] fn = "GenerateNewChessPosition" -> 19

\* a mapping without keys
EmptyMap == [k \in {} |-> <<>>]

\* the goroutines of the server that the model follows
Goroutines == {1, 2}

Idle ==
    [fn |-> "idle", pc |-> "", mutex |-> "", mode |-> "", text |-> {},
     last |-> 0, value |-> "", result |-> FALSE, got |-> EmptyMap,
     prior |-> <<>>, highest |-> 0, allSatisfied |-> FALSE, completed |-> FALSE]

\* after the package init functions: GenerateNewCaptcha and
\* GenerateNewChessPosition have run, the database-backed values wait for
\* the first refresh
StartupValues ==
    [n \in CurrentNames |->
        IF n \in {"currentCaptchaID", "currentBestMove"} THEN "a" ELSE Unset]

InitShared ==
    /\ currentValues = StartupValues
    /\ wordleCache = EmptyWordleCache
    /\ goroutines = [p \in Goroutines |-> Idle]

(***************************************************************************)
(* rules/validate.go: loadAssignments, NewRuleSet                          *)
(***************************************************************************)
RECURSIVE SeqsUpTo(_, _)
SeqsUpTo(S, n) ==
    IF n = 0 THEN {<<>>}
    ELSE SeqsUpTo(S, n - 1) \cup
         {Append(s, x) : s \in {t \in SeqsUpTo(S, n - 1) : Len(t) = n - 1}, x \in S}

IDLists == SeqsUpTo(PoolIDs \cup {AbsentID}, MaxListLen)

\* difficulty keys a client may register with
Difficulties == {"expert", "nosuch"}

FileMissing == [kind |-> "missing", map |-> EmptyMap]
FileUndecodable == [kind |-> "undecodable", map |-> EmptyMap]
FileOf(m) == [kind |-> "ok", map |-> m]

\* what rules/assignments.json may hold
AssignmentFiles ==
    {FileMissing, FileUndecodable, FileOf(EmptyMap)}
    \cup {FileOf([k \in {"expert"} |-> l]) : l \in IDLists}

\* the files the handlers are run against: no file, an entry without rules,
\* and an unordered entry that skips rule 1 and names an absent ID
InstalledFiles ==
    {FileMissing,
     FileOf([k \in {"expert"} |-> <<>>]),
     FileOf([k \in {"expert"} |-> <<AbsentID, 25, 24>>])}

\* the mapping loadAssignments returns (and caches on the first call)
loadAssignments ==
    IF assignmentsLoaded THEN assignmentsCache
    ELSE IF assignmentsFile.kind = "ok" THEN assignmentsFile.map
    ELSE EmptyMap

\* sort.Slice(rules, ID ascending): insertion into an ascending sequence
RECURSIVE SortByID(_)
SortByID(rs) ==
    IF Len(rs) <= 1 THEN rs
    ELSE LET rest == SortByID(Tail(rs))
             x == Head(rs)
             lo == SelectSeq(rest, LAMBDA r : r.ID < x.ID)
             hi == SelectSeq(rest, LAMBDA r : ~(r.ID < x.ID))
         IN lo \o <<x>> \o hi

\* NewRuleSet without the fallback for an unknown difficulty key
NewRuleSetNoFallback(assignments, difficulty) ==
    IF difficulty \notin DOMAIN assignments
    THEN <<>>
    ELSE SortByID(GetRulesByIDs(assignments[difficulty]))

NewRuleSet(assignments, difficulty) ==
    IF difficulty \notin DOMAIN assignments
    THEN GetRulesByCategory("basic")
    ELSE SortByID(GetRulesByIDs(assignments[difficulty]))

(***************************************************************************)
(* rules/validate.go: ValidatePassword                                     *)
(***************************************************************************)
\* OldFlag that gives a position past the end the last entry's value
OldFlagLast(prev, i) ==
    IF i <= Len(prev) THEN prev[i]
    ELSE IF Len(prev) > 0 THEN prev[Len(prev)] ELSE FALSE

\* lines 88-95: the prior flag at position i, false when there is none
OldFlag(prev, i) == IF i <= Len(prev) THEN prev[i] ELSE FALSE

\* AlwaysShown without the test for the first position
AlwaysShownIDOnly(rs, i) == rs[i].ID = 1

\* line 98
AlwaysShown(rs, i) == rs[i].ID = 1 \/ i = 1

allPreviousVisible(rs, i) == \A j \in 1..(i - 1) : rs[j].IsVisible

\* GateOpen without the test for a non-empty password
GateOpenNoLength(rs, i, pw) ==
    /\ i > 1
    /\ allPreviousVisible(rs, i) /\ rs[i - 1].IsSatisfied

\* lines 104-117
GateOpen(rs, i, pw) ==
    /\ pw.len > 0 /\ i > 1
    /\ allPreviousVisible(rs, i) /\ rs[i - 1].IsSatisfied

\* VisibleAfter without the branch that keeps a visible rule visible
VisibleAfterNoKeep(rs, i, pw, oldVisible) ==
    IF AlwaysShown(rs, i) THEN TRUE
    ELSE IF GateOpen(rs, i, pw) THEN TRUE
    ELSE rs[i].IsVisible

\* lines 98-118: IsVisible of the rule at position i after its update
VisibleAfter(rs, i, pw, oldVisible) ==
    IF AlwaysShown(rs, i) THEN TRUE
    ELSE IF oldVisible THEN TRUE
    ELSE IF GateOpen(rs, i, pw) THEN TRUE
    ELSE rs[i].IsVisible

\* NewlySatisfiedOf that ignores the prior flag
NewlySatisfiedAlways(oldSatisfied, sat) == sat

\* line 124
NewlySatisfiedOf(oldSatisfied, sat) == ~oldSatisfied /\ sat

\* ValidateStep whose gate reads the predecessor's satisfaction of the prior
\* pass instead of the one computed in this pass
ValidateStepPriorGate(rs, i, pw, prevStates, prevVisible) ==
    LET oldSatisfied == OldFlag(prevStates, i)
        oldVisible == OldFlag(prevVisible, i)
        vis == IF AlwaysShown(rs, i) THEN TRUE
               ELSE IF oldVisible THEN TRUE
               ELSE IF /\ pw.len > 0 /\ i > 1 /\ allPreviousVisible(rs, i)
                       /\ OldFlag(prevStates, i - 1)
                    THEN TRUE
               ELSE rs[i].IsVisible
        sat == IF vis THEN Validator(rs[i].ID, pw) ELSE rs[i].IsSatisfied
        nsat == IF vis THEN NewlySatisfiedOf(oldSatisfied, sat)
                ELSE rs[i].NewlySatisfied
        nrev == ~oldVisible /\ vis
    IN [rs EXCEPT ![i] = [@ EXCEPT !.IsVisible = vis, !.IsSatisfied = sat,
                                   !.NewlySatisfied = nsat, !.NewlyRevealed = nrev]]

\* SatisfiedAfter that calls the Validator whether or not the rule is visible
SatisfiedAfterUnguarded(rs, i, pw, vis) == Validator(rs[i].ID, pw)

\* lines 121-122: IsSatisfied of the rule at position i after its iteration,
\* vis being its IsVisible after the visibility update
SatisfiedAfter(rs, i, pw, vis) ==
    IF vis THEN Validator(rs[i].ID, pw) ELSE rs[i].IsSatisfied

\* one iteration of the loop body for the rule at (1-based) position i
ValidateStep(rs, i, pw, prevStates, prevVisible) ==
    LET oldSatisfied == OldFlag(prevStates, i)
        oldVisible == OldFlag(prevVisible, i)
        vis == VisibleAfter(rs, i, pw, oldVisible)
        sat == SatisfiedAfter(rs, i, pw, vis)
        nsat == IF vis THEN NewlySatisfiedOf(oldSatisfied, sat)
                ELSE rs[i].NewlySatisfied
        nrev == ~oldVisible /\ vis
    IN [rs EXCEPT ![i] = [@ EXCEPT !.IsVisible = vis, !.IsSatisfied = sat,
                                   !.NewlySatisfied = nsat, !.NewlyRevealed = nrev]]

RECURSIVE ValidateFrom(_, _, _, _, _)
ValidateFrom(rs, i, pw, prevStates, prevVisible) ==
    IF i > Len(rs) THEN rs
    ELSE ValidateFrom(ValidateStep(rs, i, pw, prevStates, prevVisible),
                      i + 1, pw, prevStates, prevVisible)

\* CallsOfStep that calls the Validator whether or not the rule is visible
CallsOfStepEager(after, i) == <<i>>

\* lines 121-122: the Validator calls of the iteration for position i, which
\* left the rules as after
CallsOfStep(after, i) == IF after[i].IsVisible THEN <<i>> ELSE <<>>

\* the positions whose Validator the loop calls from position i on, in call
\* order
RECURSIVE ValidatorCallsFrom(_, _, _, _, _)
ValidatorCallsFrom(rs, i, pw, prevStates, prevVisible) ==
    IF i > Len(rs) THEN <<>>
    ELSE LET after == ValidateStep(rs, i, pw, prevStates, prevVisible)
         IN CallsOfStep(after, i)
            \o ValidatorCallsFrom(after, i + 1, pw, prevStates, prevVisible)

ValidatePassword(rs, pw, prevStates, prevVisible) ==
    ValidateFrom(rs, 1, pw, prevStates, prevVisible)

GetSatisfiedCount(rs) == Cardinality({i \in DOMAIN rs : rs[i].IsSatisfied})

(***************************************************************************)
(* rules/validate.go: GetSortedVisibleRules                                *)
(***************************************************************************)
SwapAt(s, i, j) == [s EXCEPT ![i] = s[j], ![j] = s[i]]

\* SortSwaps that compares IDs only
SortSwapsByIDOnly(a, b) == a.ID > b.ID

\* the comparison of the inner loop body: must positions i and j be swapped
SortSwaps(a, b) ==
    IF a.IsSatisfied = b.IsSatisfied THEN a.ID > b.ID
    ELSE a.IsSatisfied /\ ~b.IsSatisfied

RECURSIVE SortInner(_, _, _)
SortInner(s, i, j) ==
    IF j > Len(s) THEN s
    ELSE SortInner(IF SortSwaps(s[i], s[j]) THEN SwapAt(s, i, j) ELSE s, i, j + 1)

RECURSIVE SortOuter(_, _)
SortOuter(s, i) ==
    IF i >= Len(s) THEN s
    ELSE SortOuter(SortInner(s, i, i + 1), i + 1)

GetSortedVisibleRules(rs) ==
    SortOuter(SelectSeq(rs, LAMBDA r : r.IsVisible), 1)

(***************************************************************************)
(* component: analyzeRuleChanges                                           *)
(***************************************************************************)
EmptyAnalysis ==
    [HasChanges |-> FALSE, NewlySatisfied |-> <<>>, NewlyUnsatisfied |-> <<>>,
     NewlyVisible |-> <<>>, NewlyHidden |-> <<>>]

\* AnalyzeSatisfied that reports a newly unsatisfied rule without raising
\* HasChanges
AnalyzeSatisfiedNoFlag(analysis, rule, i, previousSatisfied) ==
    IF i <= Len(previousSatisfied)
    THEN IF ~previousSatisfied[i] /\ rule.IsSatisfied
         THEN [analysis EXCEPT !.NewlySatisfied = Append(@, rule.ID),
                               !.HasChanges = TRUE]
         ELSE IF previousSatisfied[i] /\ ~rule.IsSatisfied
         THEN [analysis EXCEPT !.NewlyUnsatisfied = Append(@, rule.ID)]
         ELSE analysis
    ELSE analysis

\* the "satisfaction changes" half of the loop body
AnalyzeSatisfied(analysis, rule, i, previousSatisfied) ==
    IF i <= Len(previousSatisfied)
    THEN IF ~previousSatisfied[i] /\ rule.IsSatisfied
         THEN [analysis EXCEPT !.NewlySatisfied = Append(@, rule.ID),
                               !.HasChanges = TRUE]
         ELSE IF previousSatisfied[i] /\ ~rule.IsSatisfied
         THEN [analysis EXCEPT !.NewlyUnsatisfied = Append(@, rule.ID),
                               !.HasChanges = TRUE]
         ELSE analysis
    ELSE analysis

\* AnalyzeVisible without the branch for a rule that has no prior entry
AnalyzeVisibleNoNew(analysis, rule, i, prevVisible) ==
    IF i <= Len(prevVisible)
    THEN IF ~prevVisible[i] /\ rule.IsVisible
         THEN [analysis EXCEPT !.NewlyVisible = Append(@, rule.ID),
                               !.HasChanges = TRUE]
         ELSE IF prevVisible[i] /\ ~rule.IsVisible
         THEN [analysis EXCEPT !.NewlyHidden = Append(@, rule.ID),
                               !.HasChanges = TRUE]
         ELSE analysis
    ELSE analysis

\* the "visibility changes" half of the loop body
AnalyzeVisible(analysis, rule, i, prevVisible) ==
    IF i <= Len(prevVisible)
    THEN IF ~prevVisible[i] /\ rule.IsVisible
         THEN [analysis EXCEPT !.NewlyVisible = Append(@, rule.ID),
                               !.HasChanges = TRUE]
         ELSE IF prevVisible[i] /\ ~rule.IsVisible
         THEN [analysis EXCEPT !.NewlyHidden = Append(@, rule.ID),
                               !.HasChanges = TRUE]
         ELSE analysis
    ELSE IF rule.IsVisible
    THEN [analysis EXCEPT !.NewlyVisible = Append(@, rule.ID),
                          !.HasChanges = TRUE]
    ELSE analysis

RECURSIVE AnalyzeFrom(_, _, _, _, _)
AnalyzeFrom(analysis, currentRules, i, previousSatisfied, prevVisible) ==
    IF i > Len(currentRules) THEN analysis
    ELSE AnalyzeFrom(
            AnalyzeVisible(
                AnalyzeSatisfied(analysis, currentRules[i], i, previousSatisfied),
                currentRules[i], i, prevVisible),
            currentRules, i + 1, previousSatisfied, prevVisible)

analyzeRuleChanges(currentRules, previousSatisfied, prevVisible) ==
    AnalyzeFrom(EmptyAnalysis, currentRules, 1, previousSatisfied, prevVisible)

(***************************************************************************)
(* The X-Satisfied-States / X-Visible-States headers                       *)
(***************************************************************************)
\* strconv.Itoa: the decimal digits of a non-negative integer
RECURSIVE Itoa(_)
Itoa(n) == IF n < 10 THEN <<n>> ELSE Itoa(n \div 10) \o <<n % 10>>

\* a header is absent (""), undecodable, or a JSON object, kept as a set of
\* <<key, value>> pairs
NoHeader == [kind |-> "absent", map |-> {}]
BadHeader == [kind |-> "undecodable", map |-> {}]
JSONHeader(m) == [kind |-> "json", map |-> m]

\* stateMap[key] of a Go map[string]bool: false when the key is missing
MapGet(m, key) == \E p \in m : p[1] = key /\ p[2]

\* DecodeStates with the map looked up by the rule's index, not by its ID
DecodeStatesByIndex(header, ruleSet) ==
    IF header.kind = "json"
    THEN [i \in 1..Len(ruleSet) |-> MapGet(header.map, Itoa(i - 1))]
    ELSE <<>>

\* lines 411-420 and 423-432 of HandleValidate
DecodeStates(header, ruleSet) ==
    IF header.kind = "json"
    THEN [i \in 1..Len(ruleSet) |-> MapGet(header.map, Itoa(ruleSet[i].ID))]
    ELSE <<>>

\* EncodeSatisfied that returns every rule as not satisfied
EncodeSatisfiedNone(rs) ==
    JSONHeader({<<Itoa(rs[i].ID), FALSE>> : i \in DOMAIN rs})

\* lines 506-519 of HandleValidate
EncodeSatisfied(rs) ==
    JSONHeader({<<Itoa(rs[i].ID), rs[i].IsSatisfied>> : i \in DOMAIN rs})

EncodeVisible(rs) ==
    JSONHeader({<<Itoa(rs[i].ID), rs[i].IsVisible>> : i \in DOMAIN rs})

\* what a request may carry instead of the browser's stored states
LostHeaders == {NoHeader, BadHeader}

(***************************************************************************)
(* Sessions and the database                                               *)
(***************************************************************************)
NoSession == [exists |-> FALSE, UserID |-> 0, Difficulty |-> "", MaxRule |-> 0,
              IsCompleted |-> FALSE]

NewSession(userID, difficulty) ==
    [exists |-> TRUE, UserID |-> userID, Difficulty |-> difficulty,
     MaxRule |-> 0, IsCompleted |-> FALSE]

\* database.UpdateUserProgress: the row is written only for a real user
UpdateUserProgress(userID, ruleReached, current) ==
    IF userID > 0 /\ ruleReached >= 0 /\ ruleReached <= 50
    THEN ruleReached ELSE current

SetMax(S) == IF S = {} THEN 0 ELSE CHOOSE m \in S : \A x \in S : x <= m

(***************************************************************************)
(* Initial state                                                           *)
(***************************************************************************)
NoPassword == [len |-> 0, holds |-> {}, squares |-> 0, blank |-> FALSE]

Init ==
    /\ InitShared
    /\ assignmentsFile \in InstalledFiles
    /\ assignmentsCache = EmptyMap
    /\ assignmentsLoaded = FALSE
    /\ poolLoaded = FALSE
    /\ rulePool = <<>>
    /\ ruleSets = NoRuleSets
    /\ session = NoSession
    /\ dbRuleReached = 0
    /\ dbCalls = <<>>
    /\ clientSat = JSONHeader({})
    /\ clientVis = JSONHeader({})
    /\ carried = FALSE
    /\ rules = <<>>
    /\ ruleChanges = EmptyAnalysis
    /\ sortedRules = <<>>
    /\ panicked = FALSE
    /\ op = "none"
    /\ argPassword = NoPassword
    /\ argPreviousStates = <<>>
    /\ argPreviousVisible = <<>>
    /\ cyberSecRules = ZeroCyberSecRules

(***************************************************************************)
(* component: the handlers                                                 *)
(***************************************************************************)
\* HandleRegisterUser, past its input and database checks
HandleRegisterUser(difficulty) ==
    /\ session' = NewSession(1, difficulty)
    /\ dbRuleReached' = 0
    /\ dbCalls' = <<>>
    /\ panicked' = FALSE
    /\ ~cyberSecRules.mutexHeld
    /\ cyberSecRules' = ResetCyberSecurityRules
    /\ op' = "HandleRegisterUser"
    /\ UNCHANGED sharedVars
    /\ UNCHANGED <<poolLoaded, rulePool, ruleSets>>
    /\ UNCHANGED <<assignmentsFile, assignmentsCache, assignmentsLoaded,
                   clientSat, clientVis, carried, rules, ruleChanges,
                   sortedRules, argPassword, argPreviousStates,
                   argPreviousVisible>>

\* HandlePasswordGame with ?test_session=true&difficulty=...
HandleTestSession(difficulty) ==
    /\ session' = NewSession(-1, difficulty)
    /\ dbCalls' = <<>>
    /\ panicked' = FALSE
    /\ ~cyberSecRules.mutexHeld
    /\ cyberSecRules' = ResetCyberSecurityRules
    /\ op' = "HandleTestSession"
    /\ UNCHANGED sharedVars
    /\ UNCHANGED <<poolLoaded, rulePool, ruleSets>>
    /\ UNCHANGED <<assignmentsFile, assignmentsCache, assignmentsLoaded,
                   dbRuleReached, clientSat, clientVis, carried, rules,
                   ruleChanges, sortedRules, argPassword, argPreviousStates,
                   argPreviousVisible>>

\* HandlePasswordGame for a client with a session: the page is rendered from
\* a fresh rule set, and the page's script starts with empty stored states
HandlePasswordGame ==
    /\ session.exists
    /\ LET assignments == loadAssignments
           ruleSet == NewRuleSet(assignments, session.Difficulty)
       IN /\ assignmentsCache' = assignments
          /\ assignmentsLoaded' = TRUE
          /\ poolLoaded' = TRUE
          /\ rulePool' = (IF poolLoaded THEN rulePool ELSE Pool)
          /\ UNCHANGED ruleSets
          /\ IF Len(ruleSet) = 0
             THEN /\ panicked' = TRUE
                  /\ UNCHANGED <<rules, sortedRules, clientSat, clientVis>>
             ELSE LET shown == [ruleSet EXCEPT ![1].IsVisible = TRUE]
                  IN /\ panicked' = FALSE
                     /\ rules' = shown
                     /\ sortedRules' = GetSortedVisibleRules(shown)
                     /\ clientSat' = JSONHeader({})
                     /\ clientVis' = JSONHeader({})
    /\ dbCalls' = <<>>
    /\ op' = "HandlePasswordGame"
    /\ UNCHANGED sharedVars
    /\ UNCHANGED <<assignmentsFile, session, dbRuleReached, carried,
                   ruleChanges, argPassword, argPreviousStates,
                   argPreviousVisible, cyberSecRules>>

\* HandleValidate for a POST of a client with a session
HandleValidate(pw, hdrSat, hdrVis) ==
    /\ session.exists
    /\ RecordsOutcomes(cyberSecRules, pw)
    /\ LET assignments == loadAssignments
           ruleSet == NewRuleSet(assignments, session.Difficulty)
           previousSatisfiedStates == DecodeStates(hdrSat, ruleSet)
           previousVisibleStates == DecodeStates(hdrVis, ruleSet)
           validated == ValidatePassword(ruleSet, pw, previousSatisfiedStates,
                                         previousVisibleStates)
           newly == {validated[i].ID : i \in {k \in DOMAIN validated :
                                                validated[k].NewlySatisfied}}
           shouldUpdateDB == newly # {}
           highestNewlySatisfiedRule == SetMax(newly)
           milestone == shouldUpdateDB /\ highestNewlySatisfiedRule > session.MaxRule
           maxRule == IF milestone THEN highestNewlySatisfiedRule ELSE session.MaxRule
           db1 == IF milestone
                  THEN UpdateUserProgress(session.UserID, highestNewlySatisfiedRule,
                                          dbRuleReached)
                  ELSE dbRuleReached
           satisfiedCount == GetSatisfiedCount(validated)
           rulesLen == Len(validated)
           completion == satisfiedCount = rulesLen /\ ~session.IsCompleted
           db2 == IF completion
                  THEN UpdateUserProgress(session.UserID, rulesLen, db1)
                  ELSE db1
       IN /\ assignmentsCache' = assignments
          /\ assignmentsLoaded' = TRUE
          /\ poolLoaded' = TRUE
          /\ rulePool' = (IF poolLoaded THEN rulePool ELSE Pool)
          /\ UNCHANGED ruleSets
          /\ session' = [session EXCEPT !.MaxRule = maxRule,
                                        !.IsCompleted = @ \/ completion]
          /\ dbRuleReached' = db2
          /\ dbCalls' = (IF milestone THEN <<highestNewlySatisfiedRule>> ELSE <<>>)
                        \o (IF completion THEN <<rulesLen>> ELSE <<>>)
          /\ rules' = validated
          /\ ruleChanges' = analyzeRuleChanges(validated, previousSatisfiedStates,
                                               previousVisibleStates)
          /\ sortedRules' = GetSortedVisibleRules(validated)
          /\ clientSat' = EncodeSatisfied(validated)
          /\ clientVis' = EncodeVisible(validated)
          /\ cyberSecRules' = CyberSecRulesAfter(cyberSecRules, pw, validated)
    /\ carried' = (hdrSat = clientSat /\ hdrVis = clientVis)
    /\ panicked' = FALSE
    /\ op' = "HandleValidate"
    /\ UNCHANGED sharedVars
    /\ UNCHANGED <<assignmentsFile, argPassword, argPreviousStates,
                   argPreviousVisible>>

\* the passwords that differ on the rules of the session's rule set
PasswordsFor(rs) ==
    {pw \in Passwords :
        /\ pw.holds \subseteq {rs[i].ID : i \in DOMAIN rs}
        /\ pw.squares > 0 => \E i \in DOMAIN rs : rs[i].ID = 24}

\* the header pairs a request may carry: the states the page's script stored
\* from the last response, or either or both headers missing or undecodable
RequestHeaders ==
    {<<clientSat, clientVis>>, <<NoHeader, clientVis>>, <<clientSat, NoHeader>>}
    \cup {<<h, h>> : h \in LostHeaders}

Validate ==
    \E pw \in PasswordsFor(NewRuleSet(loadAssignments, session.Difficulty)),
       h \in RequestHeaders :
        HandleValidate(pw, h[1], h[2])

\* the only difficulty key the registration form of the checked runs offers;
\* with no assignments file it is an unknown key
FormDifficulties == {"expert"}

Next ==
    \/ \E d \in FormDifficulties : HandleRegisterUser(d)
    \/ \E d \in FormDifficulties : HandleTestSession(d)
    \/ HandlePasswordGame
    \/ Validate

Spec == Init /\ [][Next]_vars

(***************************************************************************)
(* Direct calls: ValidatePassword, analyzeRuleChanges and                  *)
(* GetSortedVisibleRules applied to arguments drawn from bounded sets      *)
(***************************************************************************)
\* every rule set NewRuleSet can build
RuleSets == {NewRuleSet(f.map, d) : f \in AssignmentFiles, d \in Difficulties}

\* prior-state sequences shorter than, as long as and longer than the rule set
BoolSeqs(n) == UNION {[1..k -> BOOLEAN] : k \in 0..n}

\* rule sets whose rules carry arbitrary satisfied / visible flags
Flagged(rs) ==
    {[i \in DOMAIN rs |-> [rs[i] EXCEPT !.IsSatisfied = f[i][1], !.IsVisible = f[i][2]]] :
        f \in [DOMAIN rs -> BOOLEAN \X BOOLEAN]}

\* the JSON objects a state header may hold for a rule set: each rule's ID is
\* a key with value true, a key with value false, or no key, and the object
\* may have a key that is no rule's ID
StateMaps(rs) ==
    LET keys == {rs[i].ID : i \in DOMAIN rs} \cup {AbsentID}
    IN UNION {{{<<Itoa(id), f[id]>> : id \in S} : f \in [S -> BOOLEAN]} :
                 S \in SUBSET keys}

\* the values of the X-Visible-States header of a request
StateHeaders(rs) == LostHeaders \cup {JSONHeader(m) : m \in StateMaps(rs)}

\* a state of cyberSecRules in which the predicates of rules 24 and 25 return
\* what pw.holds records
CyberSecRulesFor(pw) ==
    [ZeroCyberSecRules EXCEPT
        !.blackboxRuleValidated = 24 \in pw.holds,
        !.blackboxInjectionStarted = 24 \in pw.holds,
        !.blackboxMinimumInjected = 24 \in pw.holds,
        !.imposterRuleValidated = 25 \in pw.holds,
        !.imposterIndices = IF 25 \in pw.holds THEN 3 ELSE 0,
        !.lastPasswordLength = IF 25 \in pw.holds THEN 8 ELSE 0]

InitCalls ==
    /\ InitShared
    /\ assignmentsFile = FileMissing
    /\ assignmentsCache = EmptyMap
    /\ assignmentsLoaded = FALSE
    /\ poolLoaded = TRUE
    /\ rulePool = Pool
    /\ ruleSets = NoRuleSets
    /\ session = NoSession
    /\ dbRuleReached = 0
    /\ dbCalls = <<>>
    /\ carried = FALSE
    /\ ruleChanges = EmptyAnalysis
    /\ sortedRules = <<>>
    /\ panicked = FALSE
    /\ \E rs \in RuleSets :
          \/ /\ clientSat = JSONHeader({})
             /\ clientVis = JSONHeader({})
             /\ argPreviousStates \in BoolSeqs(Len(rs) + 1)
             /\ argPreviousVisible \in BoolSeqs(Len(rs) + 1)
             /\ \/ /\ op = "fresh"
                   /\ rules = rs
                   /\ argPassword \in PasswordsFor(rs)
                \/ /\ op = "given"
                   /\ rules \in Flagged(rs)
                   /\ argPassword = NoPassword
          \/ /\ op = "request"
             /\ rules = rs
             /\ argPassword \in PasswordsFor(rs)
             /\ clientVis \in StateHeaders(rs)
             /\ clientSat \in LostHeaders \cup {JSONHeader({}), clientVis}
             /\ argPreviousStates = <<>>
             /\ argPreviousVisible = <<>>
    /\ argPassword.squares = 0
    /\ cyberSecRules = CyberSecRulesFor(argPassword)

\* HandleValidate lines 434, 484 and 490 on a freshly built rule set
CallValidatePassword ==
    /\ op = "fresh"
    /\ LET validated == ValidatePassword(rules, argPassword, argPreviousStates,
                                         argPreviousVisible)
       IN /\ rules' = validated
          /\ ruleChanges' = analyzeRuleChanges(validated, argPreviousStates,
                                               argPreviousVisible)
          /\ sortedRules' = GetSortedVisibleRules(validated)
          /\ cyberSecRules' = CyberSecRulesAfter(cyberSecRules, argPassword, validated)
    /\ op' = "ValidatePassword"
    /\ UNCHANGED sharedVars
    /\ UNCHANGED <<poolLoaded, rulePool, ruleSets>>
    /\ UNCHANGED <<assignmentsFile, assignmentsCache, assignmentsLoaded, session,
                   dbRuleReached, dbCalls, clientSat, clientVis, carried,
                   panicked, argPassword, argPreviousStates, argPreviousVisible>>

\* analyzeRuleChanges and GetSortedVisibleRules on rules with given flags
CallAnalyzeAndSort ==
    /\ op = "given"
    /\ ruleChanges' = analyzeRuleChanges(rules, argPreviousStates, argPreviousVisible)
    /\ sortedRules' = GetSortedVisibleRules(rules)
    /\ op' = "analyzeRuleChanges"
    /\ UNCHANGED sharedVars
    /\ UNCHANGED <<poolLoaded, rulePool, ruleSets>>
    /\ UNCHANGED <<assignmentsFile, assignmentsCache, assignmentsLoaded, session,
                   dbRuleReached, dbCalls, clientSat, clientVis, carried, rules,
                   panicked, argPassword, argPreviousStates, argPreviousVisible,
                   cyberSecRules>>

\* HandleValidate lines 410-434, 484 and 490: the request's state headers
\* (held in clientSat and clientVis) are decoded and passed to ValidatePassword
CallDecodeAndValidate ==
    /\ op = "request"
    /\ LET previousSatisfiedStates == DecodeStates(clientSat, rules)
           previousVisibleStates == DecodeStates(clientVis, rules)
           validated == ValidatePassword(rules, argPassword, previousSatisfiedStates,
                                         previousVisibleStates)
       IN /\ argPreviousStates' = previousSatisfiedStates
          /\ argPreviousVisible' = previousVisibleStates
          /\ rules' = validated
          /\ ruleChanges' = analyzeRuleChanges(validated, previousSatisfiedStates,
                                               previousVisibleStates)
          /\ sortedRules' = GetSortedVisibleRules(validated)
          /\ cyberSecRules' = CyberSecRulesAfter(cyberSecRules, argPassword, validated)
    /\ op' = "DecodeAndValidate"
    /\ UNCHANGED sharedVars
    /\ UNCHANGED <<poolLoaded, rulePool, ruleSets>>
    /\ UNCHANGED <<assignmentsFile, assignmentsCache, assignmentsLoaded, session,
                   dbRuleReached, dbCalls, clientSat, clientVis, carried,
                   panicked, argPassword>>

NextCalls == CallValidatePassword \/ CallAnalyzeAndSort \/ CallDecodeAndValidate

SpecCalls == InitCalls /\ [][NextCalls]_vars

(***************************************************************************)
(* Direct calls: NewRuleSet for every assignments file and difficulty key  *)
(***************************************************************************)
InitRuleSet ==
    /\ InitShared
    /\ assignmentsFile \in AssignmentFiles
    /\ assignmentsCache = EmptyMap
    /\ assignmentsLoaded = FALSE
    /\ poolLoaded = FALSE
    /\ rulePool = <<>>
    /\ ruleSets = NoRuleSets
    /\ session \in {NewSession(1, d) : d \in Difficulties}
    /\ dbRuleReached = 0
    /\ dbCalls = <<>>
    /\ clientSat = JSONHeader({})
    /\ clientVis = JSONHeader({})
    /\ carried = FALSE
    /\ rules = <<>>
    /\ ruleChanges = EmptyAnalysis
    /\ sortedRules = <<>>
    /\ panicked = FALSE
    /\ op = "new"
    /\ argPassword = NoPassword
    /\ argPreviousStates = <<>>
    /\ argPreviousVisible = <<>>
    /\ cyberSecRules = ZeroCyberSecRules

\* rules.NewRuleSet(userSession.Difficulty), the first call of the process
CallNewRuleSet ==
    /\ op = "new"
    /\ LET assignments == loadAssignments
       IN /\ assignmentsCache' = assignments
          /\ assignmentsLoaded' = TRUE
          /\ poolLoaded' = TRUE
          /\ rulePool' = (IF poolLoaded THEN rulePool ELSE Pool)
          /\ UNCHANGED ruleSets
          /\ rules' = NewRuleSet(assignments, session.Difficulty)
    /\ op' = "NewRuleSet"
    /\ UNCHANGED sharedVars
    /\ UNCHANGED <<assignmentsFile, session, dbRuleReached, dbCalls, clientSat,
                   clientVis, carried, ruleChanges, sortedRules, panicked,
                   argPassword, argPreviousStates, argPreviousVisible,
                   cyberSecRules>>

NextRuleSet == CallNewRuleSet

SpecRuleSet == InitRuleSet /\ [][NextRuleSet]_vars

(***************************************************************************)
(* Validation passes of several sessions of one process: the arguments of  *)
(* one pass are fixed at the start and the pass is repeated between other  *)
(* passes and registrations, all sharing cyberSecRules                     *)
(***************************************************************************)
\* the password as a pass sees it while cyberSecRules is csr: pw.holds with
\* what Rule24RansomwareAttack and Rule25InsiderThreat return on it
Seen(csr, pw) ==
    [pw EXCEPT !.holds =
        (@ \ {24, 25})
        \cup (IF Rule24RansomwareAttack(csr, pw).result THEN {24} ELSE {})
        \cup (IF pw.len >= 3 /\ Rule25InsiderThreat(csr, pw).result THEN {25} ELSE {})]

\* position of the rule whose Validator call does not return, 0 if all do
FailingPosition(validated, csr, pw) ==
    LET F == {i \in DOMAIN validated :
                 /\ validated[i].ID = 25 /\ validated[i].IsVisible
                 /\ ~Rule25InsiderThreat(csr, pw).returns}
    IN IF F = {} THEN 0 ELSE CHOOSE i \in F : TRUE

\* a ValidatePassword pass with the predicates of rules 24 and 25 evaluated
\* on cyberSecRules: the rule at the failing position has its visibility set
\* (lines 98-118) and the loop never gets past line 122
Pass(rs, pw, prevStates, prevVisible, csr) ==
    LET validated == ValidatePassword(rs, Seen(csr, pw), prevStates, prevVisible)
        f == FailingPosition(validated, csr, pw)
    IN [completed |-> f = 0,
        rules |-> [i \in DOMAIN rs |->
                      IF f = 0 \/ i < f THEN validated[i]
                      ELSE IF i = f THEN [rs[i] EXCEPT !.IsVisible = TRUE]
                      ELSE rs[i]],
        csr |-> CyberSecRulesAfter(csr, pw, validated)]

\* the prior sequences the passes are given: none, all false, all true
PriorSamples(rs) ==
    {<<>>, [i \in DOMAIN rs |-> FALSE], [i \in DOMAIN rs |-> TRUE]}

\* what a client may type for a rule set; for rule 25, 25 \in pw.holds says
\* that the characters at the stored indices are gone
TypedFor(rs) ==
    {pw \in PasswordsFor(rs) : 24 \notin pw.holds} \cup {BlankPassword}

\* a pass waits for cyberSecRules.mutex when it calls rule 24 or rule 25
MayLock(rs) == \E i \in DOMAIN rs : rs[i].ID \in {24, 25}

InitEngine ==
    /\ InitShared
    /\ assignmentsFile = FileMissing
    /\ assignmentsCache = EmptyMap
    /\ assignmentsLoaded = FALSE
    /\ poolLoaded = TRUE
    /\ rulePool = Pool
    /\ ruleSets = NoRuleSets
    /\ session = NoSession
    /\ dbRuleReached = 0
    /\ dbCalls = <<>>
    /\ clientSat = JSONHeader({})
    /\ clientVis = JSONHeader({})
    /\ carried = FALSE
    /\ ruleChanges = EmptyAnalysis
    /\ sortedRules = <<>>
    /\ panicked = FALSE
    /\ op = "engine"
    /\ cyberSecRules = ZeroCyberSecRules
    /\ rules \in RuleSets
    /\ argPassword \in {pw \in TypedFor(rules) : 25 \notin pw.holds}
    /\ argPreviousStates \in PriorSamples(rules)
    /\ argPreviousVisible \in PriorSamples(rules)

\* ValidatePassword on a freshly built rule set with the fixed arguments
ValidateArgs ==
    /\ ~(cyberSecRules.mutexHeld /\ MayLock(rules))
    /\ LET pass == Pass(FreshRules(rules), argPassword, argPreviousStates,
                        argPreviousVisible, cyberSecRules)
       IN /\ rules' = pass.rules
          /\ cyberSecRules' = pass.csr
          /\ op' = IF pass.completed THEN "ValidatePassword" ELSE "predicate call"
          /\ ruleChanges' = IF pass.completed
                            THEN analyzeRuleChanges(pass.rules, argPreviousStates,
                                                    argPreviousVisible)
                            ELSE ruleChanges
          /\ sortedRules' = IF pass.completed THEN GetSortedVisibleRules(pass.rules)
                            ELSE sortedRules
    /\ UNCHANGED sharedVars
    /\ UNCHANGED <<poolLoaded, rulePool, ruleSets>>
    /\ UNCHANGED <<assignmentsFile, assignmentsCache, assignmentsLoaded, session,
                   dbRuleReached, dbCalls, clientSat, clientVis, carried,
                   panicked, argPassword, argPreviousStates, argPreviousVisible>>

\* a pass of another session with the same rules and other arguments
ValidateOther(pw, prevStates, prevVisible) ==
    /\ ~(cyberSecRules.mutexHeld /\ MayLock(rules))
    /\ cyberSecRules' = Pass(FreshRules(rules), pw, prevStates, prevVisible,
                             cyberSecRules).csr
    /\ UNCHANGED sharedVars
    /\ UNCHANGED <<poolLoaded, rulePool, ruleSets>>
    /\ UNCHANGED <<assignmentsFile, assignmentsCache, assignmentsLoaded, session,
                   dbRuleReached, dbCalls, clientSat, clientVis, carried, rules,
                   ruleChanges, sortedRules, panicked, op, argPassword,
                   argPreviousStates, argPreviousVisible>>

\* HandleRegisterUser line 265 for some other client
RegisterOther ==
    /\ ~cyberSecRules.mutexHeld
    /\ cyberSecRules' = ResetCyberSecurityRules
    /\ UNCHANGED sharedVars
    /\ UNCHANGED <<poolLoaded, rulePool, ruleSets>>
    /\ UNCHANGED <<assignmentsFile, assignmentsCache, assignmentsLoaded, session,
                   dbRuleReached, dbCalls, clientSat, clientVis, carried, rules,
                   ruleChanges, sortedRules, panicked, op, argPassword,
                   argPreviousStates, argPreviousVisible>>

NextEngine ==
    \/ ValidateArgs
    \/ \E pw \in TypedFor(rules), ps \in PriorSamples(rules),
          pv \in PriorSamples(rules) : ValidateOther(pw, ps, pv)
    \/ RegisterOther

SpecEngine == InitEngine /\ [][NextEngine]_vars

(***************************************************************************)
(* Goroutines of one server: validation requests and refreshes, each a     *)
(* sequence of steps between its lock operations                           *)
(***************************************************************************)
Running(p) == goroutines[p]

\* sync.RWMutex: who holds m for writing, who for reading
Writers(m) == {q \in Goroutines : Running(q).mutex = m /\ Running(q).mode = "W"}
Readers(m) == {q \in Goroutines : Running(q).mutex = m /\ Running(q).mode = "R"}

\* the password rules 24 and 25 see in these passes
TextPassword == [len |-> 8, holds |-> {}, squares |-> 0, blank |-> FALSE]

\* the rules a pass may call a shared validator for, in ID order
SharedIDs == ReadLockedIDs \cup {16, 24, 25}

\* Lock that does not wait for the goroutines holding the mutex
LockNoExclusion(p) ==
    /\ Running(p).mode = "want W"
    /\ goroutines' = [goroutines EXCEPT ![p].mode = "W"]
    /\ UNCHANGED <<currentValues, wordleCache, assignmentsCache, assignmentsLoaded,
                   cyberSecRules>>
    /\ UNCHANGED requestVars
    /\ UNCHANGED <<poolLoaded, rulePool, ruleSets>>

\* m.Lock() returns
Lock(p) ==
    /\ Running(p).mode = "want W"
    /\ Writers(Running(p).mutex) = {} /\ Readers(Running(p).mutex) = {}
    /\ Running(p).mutex = "cyberSecRules.mutex" => ~cyberSecRules.mutexHeld
    /\ goroutines' = [goroutines EXCEPT ![p].mode = "W"]
    /\ UNCHANGED <<currentValues, wordleCache, assignmentsCache, assignmentsLoaded,
                   cyberSecRules>>
    /\ UNCHANGED requestVars
    /\ UNCHANGED <<poolLoaded, rulePool, ruleSets>>

\* m.RLock() returns
RLock(p) ==
    /\ Running(p).mode = "want R"
    /\ Writers(Running(p).mutex) = {}
    /\ goroutines' = [goroutines EXCEPT ![p].mode = "R"]
    /\ UNCHANGED <<currentValues, wordleCache, assignmentsCache, assignmentsLoaded,
                   cyberSecRules>>
    /\ UNCHANGED requestVars
    /\ UNCHANGED <<poolLoaded, rulePool, ruleSets>>

\* a POST /validate arrives: HandleValidate calls NewRuleSet, which calls
\* loadAssignments
Serve(p, text) ==
    /\ Running(p) = Idle
    /\ goroutines' = [goroutines EXCEPT ![p] =
           [Idle EXCEPT !.fn = "HandleValidate", !.pc = "loadAssignments",
                        !.mutex = "assignmentsMutex", !.mode = "want W",
                        !.text = text]]
    /\ UNCHANGED <<currentValues, wordleCache, assignmentsCache, assignmentsLoaded,
                   cyberSecRules>>
    /\ UNCHANGED requestVars
    /\ UNCHANGED <<poolLoaded, rulePool, ruleSets>>

\* loadAssignments lines 29-31, holding the lock: a loaded cache is returned
\* and Pool is next, otherwise the file is opened
LoadAssignmentsCheck(p) ==
    /\ Running(p).pc = "loadAssignments" /\ Running(p).mode = "W"
    /\ goroutines' = [goroutines EXCEPT ![p] =
           IF assignmentsLoaded
           THEN [@ EXCEPT !.pc = "Pool", !.mutex = "poolMutex",
                          !.mode = "want W", !.got = assignmentsCache]
           ELSE [@ EXCEPT !.pc = "os.Open"]]
    /\ UNCHANGED <<currentValues, wordleCache, assignmentsCache, assignmentsLoaded,
                   cyberSecRules>>
    /\ UNCHANGED requestVars
    /\ UNCHANGED <<poolLoaded, rulePool, ruleSets>>

\* what lines 33-52 store and return for the file as it is on disk
ReadAssignmentsFile ==
    IF assignmentsFile.kind = "ok" THEN assignmentsFile.map ELSE EmptyMap

\* loadAssignments lines 33-52 and the deferred Unlock; Pool is next
LoadAssignmentsRead(p) ==
    /\ Running(p).pc = "os.Open" /\ Running(p).mode = "W"
    /\ assignmentsCache' = ReadAssignmentsFile
    /\ assignmentsLoaded' = TRUE
    /\ goroutines' = [goroutines EXCEPT ![p].pc = "Pool",
                                        ![p].mutex = "poolMutex",
                                        ![p].mode = "want W",
                                        ![p].got = ReadAssignmentsFile]
    /\ UNCHANGED <<currentValues, wordleCache, cyberSecRules>>
    /\ UNCHANGED requestVars
    /\ UNCHANGED <<poolLoaded, rulePool, ruleSets>>

\* Pool lines 467-469, holding the lock: a loaded pool is returned and
\* ValidatePassword is next, otherwise the pool is built
PoolCheck(p) ==
    /\ Running(p).pc = "Pool" /\ Running(p).mode = "W"
    /\ goroutines' = [goroutines EXCEPT ![p] =
           IF poolLoaded
           THEN [@ EXCEPT !.pc = "ValidatePassword", !.mutex = "", !.mode = ""]
           ELSE [@ EXCEPT !.pc = "rulePool ="]]
    /\ UNCHANGED <<currentValues, wordleCache, assignmentsCache, assignmentsLoaded,
                   cyberSecRules>>
    /\ UNCHANGED requestVars
    /\ UNCHANGED <<poolLoaded, rulePool, ruleSets>>

\* Pool lines 471-760 and the deferred Unlock; ValidatePassword is next
PoolBuild(p) ==
    /\ Running(p).pc = "rulePool =" /\ Running(p).mode = "W"
    /\ poolLoaded' = TRUE
    /\ rulePool' = Pool
    /\ UNCHANGED ruleSets
    /\ goroutines' = [goroutines EXCEPT ![p].pc = "ValidatePassword",
                                        ![p].mutex = "", ![p].mode = ""]
    /\ UNCHANGED <<currentValues, wordleCache, assignmentsCache, assignmentsLoaded,
                   cyberSecRules>>
    /\ UNCHANGED requestVars

\* ValidatePassword reaches a visible rule with a shared validator and calls it
CallValidator(p, id) ==
    /\ Running(p).pc = "ValidatePassword"
    /\ id \in SharedIDs /\ id > Running(p).last
    /\ goroutines' = [goroutines EXCEPT
           ![p].pc = "Validator", ![p].last = id, ![p].mutex = MutexOf(id),
           ![p].mode = IF id \in {24, 25} THEN "want W" ELSE "want R"]
    /\ UNCHANGED <<currentValues, wordleCache, assignmentsCache, assignmentsLoaded,
                   cyberSecRules>>
    /\ UNCHANGED requestVars
    /\ UNCHANGED <<poolLoaded, rulePool, ruleSets>>

\* a validator of rules 13, 15, 17, 18, 19 copies the current value, unlocks
\* and returns
ReadCurrent(p) ==
    /\ Running(p).pc = "Validator" /\ Running(p).mode = "R"
    /\ Running(p).last \in ReadLockedIDs
    /\ LET value == currentValues[CurrentOf(Running(p).last)]
       IN goroutines' = [goroutines EXCEPT
              ![p].pc = "ValidatePassword", ![p].mutex = "", ![p].mode = "",
              ![p].value = value,
              ![p].result = SharedValidator(Running(p).last, value, Running(p).text)]
    /\ UNCHANGED <<currentValues, wordleCache, assignmentsCache, assignmentsLoaded,
                   cyberSecRules>>
    /\ UNCHANGED requestVars
    /\ UNCHANGED <<poolLoaded, rulePool, ruleSets>>

\* GetTodaysAnswer lines 35-41: the cache check under RLock
GetTodaysAnswerCheck(p) ==
    /\ Running(p).pc = "Validator" /\ Running(p).mode = "R"
    /\ Running(p).last = 16
    /\ goroutines' = [goroutines EXCEPT ![p] =
           IF wordleCache.Date = Today /\ wordleCache.Answer # ""
           THEN [@ EXCEPT !.pc = "ValidatePassword", !.mutex = "", !.mode = "",
                          !.value = wordleCache.Answer,
                          !.result = ValidateWordleAnswer(wordleCache.Answer, Running(p).text)]
           ELSE [@ EXCEPT !.pc = "fetchWordleAnswer", !.mutex = "", !.mode = ""]]
    /\ UNCHANGED <<currentValues, wordleCache, assignmentsCache, assignmentsLoaded,
                   cyberSecRules>>
    /\ UNCHANGED requestVars
    /\ UNCHANGED <<poolLoaded, rulePool, ruleSets>>

\* GetTodaysAnswer lines 44-48: the HTTP request to the API returns, with the
\* answer or with an error that makes getFallbackAnswer's word the result
fetchWordleAnswer(p, ok) ==
    /\ Running(p).pc = "fetchWordleAnswer"
    /\ goroutines' = [goroutines EXCEPT ![p] =
           IF ok
           THEN [@ EXCEPT !.pc = "cache update", !.mutex = "cache.mu",
                          !.mode = "want W", !.value = TodaysAnswer]
           ELSE [@ EXCEPT !.pc = "ValidatePassword", !.value = FallbackAnswer,
                          !.result = ValidateWordleAnswer(FallbackAnswer, Running(p).text)]]
    /\ UNCHANGED <<currentValues, wordleCache, assignmentsCache, assignmentsLoaded,
                   cyberSecRules>>
    /\ UNCHANGED requestVars
    /\ UNCHANGED <<poolLoaded, rulePool, ruleSets>>

\* GetTodaysAnswer lines 51-56: the cache update under Lock
UpdateWordleCache(p) ==
    /\ Running(p).pc = "cache update" /\ Running(p).mode = "W"
    /\ wordleCache' = [Answer |-> Running(p).value, Date |-> Today]
    /\ goroutines' = [goroutines EXCEPT
           ![p].pc = "ValidatePassword", ![p].mutex = "", ![p].mode = "",
           ![p].result = ValidateWordleAnswer(Running(p).value, Running(p).text)]
    /\ UNCHANGED <<currentValues, assignmentsCache, assignmentsLoaded, cyberSecRules>>
    /\ UNCHANGED requestVars
    /\ UNCHANGED <<poolLoaded, rulePool, ruleSets>>

\* Rule24RansomwareAttack or Rule25InsiderThreat between Lock and Unlock
CyberSecRuleLocked(p) ==
    /\ Running(p).pc = "Validator" /\ Running(p).mode = "W"
    /\ Running(p).last \in {24, 25}
    /\ LET call == IF Running(p).last = 24
                   THEN Rule24RansomwareAttack(cyberSecRules, TextPassword)
                   ELSE Rule25InsiderThreat(cyberSecRules, TextPassword)
       IN /\ cyberSecRules' = call.csr
          /\ goroutines' = [goroutines EXCEPT
                 ![p].pc = "ValidatePassword", ![p].mutex = "", ![p].mode = "",
                 ![p].result = call.result]
    /\ UNCHANGED <<currentValues, wordleCache, assignmentsCache, assignmentsLoaded>>
    /\ UNCHANGED requestVars
    /\ UNCHANGED <<poolLoaded, rulePool, ruleSets>>

\* ValidatePassword is past the last rule and the response is written
Respond(p) ==
    /\ Running(p).pc = "ValidatePassword"
    /\ goroutines' = [goroutines EXCEPT ![p] = Idle]
    /\ UNCHANGED <<currentValues, wordleCache, assignmentsCache, assignmentsLoaded,
                   cyberSecRules>>
    /\ UNCHANGED requestVars
    /\ UNCHANGED <<poolLoaded, rulePool, ruleSets>>

\* a refresh starts, from its timer or from a refresh request; the ones that
\* lock first call Lock at once
StartRefresh(p, fn) ==
    /\ Running(p) = Idle
    /\ fn \in Refreshers
    /\ goroutines' = [goroutines EXCEPT ![p] =
           IF fn \in LockThenCompute
           THEN [Idle EXCEPT !.fn = fn, !.pc = "compute",
                             !.mutex = MutexOf(RefreshID(fn)), !.mode = "want W"]
           ELSE [Idle EXCEPT !.fn = fn, !.pc = "compute"]]
    /\ UNCHANGED <<currentValues, wordleCache, assignmentsCache, assignmentsLoaded,
                   cyberSecRules>>
    /\ UNCHANGED requestVars
    /\ UNCHANGED <<poolLoaded, rulePool, ruleSets>>

\* the new value is there: the database query of GetRandomMathConstant,
\* GetRandomColor or GetRandomQRWord returns (on an error the refresh
\* returns it), captcha.NewLen returns, or getBestMoveFromStockfish returns
\* (on an error the first valid move is taken)
Compute(p, w, ok) ==
    /\ Running(p).pc = "compute"
    /\ Running(p).fn \in LockThenCompute => Running(p).mode = "W"
    /\ goroutines' = [goroutines EXCEPT ![p] =
           IF Running(p).fn \in LockThenCompute
           THEN [@ EXCEPT !.pc = "assign", !.value = w]
           ELSE IF ok
           THEN [@ EXCEPT !.pc = "assign", !.value = w,
                          !.mutex = MutexOf(RefreshID(Running(p).fn)), !.mode = "want W"]
           ELSE Idle]
    /\ UNCHANGED <<currentValues, wordleCache, assignmentsCache, assignmentsLoaded,
                   cyberSecRules>>
    /\ UNCHANGED requestVars
    /\ UNCHANGED <<poolLoaded, rulePool, ruleSets>>

\* the assignment of the new value and the deferred Unlock
Assign(p) ==
    /\ Running(p).pc = "assign" /\ Running(p).mode = "W"
    /\ currentValues' = [currentValues EXCEPT ![CurrentOf(RefreshID(Running(p).fn))] =
                                      Running(p).value]
    /\ goroutines' = [goroutines EXCEPT ![p] = Idle]
    /\ UNCHANGED <<wordleCache, assignmentsCache, assignmentsLoaded, cyberSecRules>>
    /\ UNCHANGED requestVars
    /\ UNCHANGED <<poolLoaded, rulePool, ruleSets>>

InitServer ==
    /\ InitShared
    /\ assignmentsFile = FileMissing
    /\ assignmentsCache = EmptyMap
    /\ assignmentsLoaded = FALSE
    /\ poolLoaded = FALSE
    /\ rulePool = <<>>
    /\ ruleSets = NoRuleSets
    /\ session = NoSession
    /\ dbRuleReached = 0
    /\ dbCalls = <<>>
    /\ clientSat = JSONHeader({})
    /\ clientVis = JSONHeader({})
    /\ carried = FALSE
    /\ rules = <<>>
    /\ ruleChanges = EmptyAnalysis
    /\ sortedRules = <<>>
    /\ panicked = FALSE
    /\ op = "serving"
    /\ argPassword = NoPassword
    /\ argPreviousStates = <<>>
    /\ argPreviousVisible = <<>>
    /\ cyberSecRules = ZeroCyberSecRules

NextServer ==
    \/ \E p \in Goroutines : Lock(p)
    \/ \E p \in Goroutines : RLock(p)
    \/ \E p \in Goroutines, text \in Texts : Serve(p, text)
    \/ \E p \in Goroutines : LoadAssignmentsCheck(p)
    \/ \E p \in Goroutines : LoadAssignmentsRead(p)
    \/ \E p \in Goroutines : PoolCheck(p)
    \/ \E p \in Goroutines : PoolBuild(p)
    \/ \E p \in Goroutines, id \in SharedIDs : CallValidator(p, id)
    \/ \E p \in Goroutines : ReadCurrent(p)
    \/ \E p \in Goroutines : GetTodaysAnswerCheck(p)
    \/ \E p \in Goroutines, ok \in BOOLEAN : fetchWordleAnswer(p, ok)
    \/ \E p \in Goroutines : UpdateWordleCache(p)
    \/ \E p \in Goroutines : CyberSecRuleLocked(p)
    \/ \E p \in Goroutines : Respond(p)
    \/ \E p \in Goroutines, fn \in Refreshers : StartRefresh(p, fn)
    \/ \E p \in Goroutines, w \in Words, ok \in BOOLEAN : Compute(p, w, ok)
    \/ \E p \in Goroutines : Assign(p)

SpecServer == InitServer /\ [][NextServer]_vars

(***************************************************************************)
(* Requests that build their rule set at the same time while the           *)
(* assignments file is edited on disk                                      *)
(***************************************************************************)
\* rules/assignments.json is replaced on disk
EditAssignmentsFile(f) ==
    /\ assignmentsFile # f
    /\ assignmentsFile' = f
    /\ UNCHANGED <<assignmentsCache, assignmentsLoaded, poolLoaded,
                   rulePool, ruleSets, session,
                   dbRuleReached, dbCalls, clientSat, clientVis, carried, rules,
                   ruleChanges, sortedRules, panicked, op, argPassword,
                   argPreviousStates, argPreviousVisible, cyberSecRules>>
    /\ UNCHANGED sharedVars

InitLoad ==
    /\ InitShared
    /\ assignmentsFile \in InstalledFiles
    /\ assignmentsCache = EmptyMap
    /\ assignmentsLoaded = FALSE
    /\ poolLoaded = FALSE
    /\ rulePool = <<>>
    /\ ruleSets = NoRuleSets
    /\ session = NoSession
    /\ dbRuleReached = 0
    /\ dbCalls = <<>>
    /\ clientSat = JSONHeader({})
    /\ clientVis = JSONHeader({})
    /\ carried = FALSE
    /\ rules = <<>>
    /\ ruleChanges = EmptyAnalysis
    /\ sortedRules = <<>>
    /\ panicked = FALSE
    /\ op = "serving"
    /\ argPassword = NoPassword
    /\ argPreviousStates = <<>>
    /\ argPreviousVisible = <<>>
    /\ cyberSecRules = ZeroCyberSecRules

NextLoad ==
    \/ \E p \in Goroutines : Serve(p, {})
    \/ \E p \in Goroutines : Lock(p)
    \/ \E p \in Goroutines : LoadAssignmentsCheck(p)
    \/ \E p \in Goroutines : LoadAssignmentsRead(p)
    \/ \E p \in Goroutines : PoolCheck(p)
    \/ \E p \in Goroutines : PoolBuild(p)
    \/ \E p \in Goroutines : Respond(p)
    \/ \E f \in InstalledFiles : EditAssignmentsFile(f)

SpecLoad == InitLoad /\ [][NextLoad]_vars

(***************************************************************************)
(* Direct calls of the validators of rules 13, 15, 17, 18, 19 on every     *)
(* current value, set or not                                               *)
(***************************************************************************)
InitValidators ==
    /\ currentValues \in [CurrentNames -> {Unset} \cup Words]
    /\ wordleCache = EmptyWordleCache
    /\ goroutines \in {[p \in Goroutines |->
                           IF p = 1 THEN [Idle EXCEPT !.text = text] ELSE Idle] :
                       text \in Texts}
    /\ assignmentsFile = FileMissing
    /\ assignmentsCache = EmptyMap
    /\ assignmentsLoaded = FALSE
    /\ poolLoaded = TRUE
    /\ rulePool = Pool
    /\ ruleSets = NoRuleSets
    /\ session = NoSession
    /\ dbRuleReached = 0
    /\ dbCalls = <<>>
    /\ clientSat = JSONHeader({})
    /\ clientVis = JSONHeader({})
    /\ carried = FALSE
    /\ rules = <<>>
    /\ ruleChanges = EmptyAnalysis
    /\ sortedRules = <<>>
    /\ panicked = FALSE
    /\ op = "validator"
    /\ argPassword = NoPassword
    /\ argPreviousStates = <<>>
    /\ argPreviousVisible = <<>>
    /\ cyberSecRules = ZeroCyberSecRules

\* one call of the validator of rule id with the password of goroutine 1
CallSharedValidator(id) ==
    /\ op = "validator"
    /\ op' = "Validator"
    /\ LET value == currentValues[CurrentOf(id)]
       IN goroutines' = [goroutines EXCEPT
              ![1].fn = "Validator", ![1].last = id, ![1].value = value,
              ![1].result = SharedValidator(id, value, Running(1).text)]
    /\ UNCHANGED <<currentValues, wordleCache>>
    /\ UNCHANGED <<assignmentsFile, assignmentsCache, assignmentsLoaded, poolLoaded,
                   rulePool, ruleSets, session,
                   dbRuleReached, dbCalls, clientSat, clientVis, carried, rules,
                   ruleChanges, sortedRules, panicked, argPassword,
                   argPreviousStates, argPreviousVisible, cyberSecRules>>

NextValidators == \E id \in ReadLockedIDs : CallSharedValidator(id)

SpecValidators == InitValidators /\ [][NextValidators]_vars

(***************************************************************************)
(* Requests that hold a RuleSet each: NewRuleSet copies rules out of the    *)
(* cached pool, ValidatePassword writes the flags of the RuleSet it is      *)
(* given                                                                   *)
(***************************************************************************)
\* AppendedRule that makes the new element refer to the pool's element
AppendedRuleAliased(pool, k) == [shared |-> TRUE, at |-> k, val |-> pool[k]]

\* pool.go lines 789-791 and 807-809: "for _, rule := range pool" copies the
\* pool's element k into rule, and append stores that copy in the result; an
\* element is a Rule value of its own (shared false) or the pool's element at
\* (shared true)
AppendedRule(pool, k) == [shared |-> FALSE, at |-> 0, val |-> pool[k]]

\* the elements of the Rules slice NewRuleSet returns when the cached pool
\* holds pool
RuleSetElements(pool, assignments, difficulty) ==
    LET rs == NewRuleSet(assignments, difficulty)
    IN [i \in DOMAIN rs |->
           AppendedRule(pool, CHOOSE k \in DOMAIN Pool : Pool[k].ID = rs[i].ID)]

\* the Rule an element of a Rules slice holds
RuleAt(pool, element) == IF element.shared THEN pool[element.at] ELSE element.val

\* what ranging over a Rules slice reads
RulesOf(pool, elements) == [i \in DOMAIN elements |-> RuleAt(pool, elements[i])]

InitSessions ==
    /\ InitShared
    /\ assignmentsFile \in InstalledFiles
    /\ assignmentsCache = EmptyMap
    /\ assignmentsLoaded = FALSE
    /\ poolLoaded = FALSE
    /\ rulePool = <<>>
    /\ ruleSets = NoRuleSets
    /\ session = NoSession
    /\ dbRuleReached = 0
    /\ dbCalls = <<>>
    /\ clientSat = JSONHeader({})
    /\ clientVis = JSONHeader({})
    /\ carried = FALSE
    /\ rules = <<>>
    /\ ruleChanges = EmptyAnalysis
    /\ sortedRules = <<>>
    /\ panicked = FALSE
    /\ op = "none"
    /\ argPassword = NoPassword
    /\ argPreviousStates = <<>>
    /\ argPreviousVisible = <<>>
    /\ cyberSecRules = ZeroCyberSecRules

\* request h calls rules.NewRuleSet(difficulty)
HolderNewRuleSet(h, difficulty) ==
    /\ LET assignments == loadAssignments
           pool == IF poolLoaded THEN rulePool ELSE Pool
           elements == RuleSetElements(pool, assignments, difficulty)
       IN /\ assignmentsCache' = assignments
          /\ assignmentsLoaded' = TRUE
          /\ poolLoaded' = TRUE
          /\ rulePool' = pool
          /\ ruleSets' = [ruleSets EXCEPT ![h] = elements]
          /\ rules' = RulesOf(pool, elements)
    /\ op' = "NewRuleSet"
    /\ UNCHANGED sharedVars
    /\ UNCHANGED <<assignmentsFile, session, dbRuleReached, dbCalls, clientSat,
                   clientVis, carried, ruleChanges, sortedRules, panicked,
                   argPassword, argPreviousStates, argPreviousVisible,
                   cyberSecRules>>

\* request h calls rules.ValidatePassword on the RuleSet it holds: the loop
\* assigns the flags of rs.Rules[i] in place
HolderValidatePassword(h, pw, prevStates, prevVisible) ==
    /\ ruleSets[h] # <<>>
    /\ RecordsOutcomes(cyberSecRules, pw)
    /\ LET elements == ruleSets[h]
           validated == ValidatePassword(RulesOf(rulePool, elements), pw,
                                         prevStates, prevVisible)
       IN /\ ruleSets' = [ruleSets EXCEPT ![h] =
                 [i \in DOMAIN elements |->
                     IF elements[i].shared THEN elements[i]
                     ELSE [elements[i] EXCEPT !.val = validated[i]]]]
          /\ rulePool' =
                 [k \in DOMAIN rulePool |->
                     IF \E i \in DOMAIN elements :
                           elements[i].shared /\ elements[i].at = k
                     THEN validated[CHOOSE i \in DOMAIN elements :
                                       elements[i].shared /\ elements[i].at = k]
                     ELSE rulePool[k]]
          /\ rules' = validated
          /\ cyberSecRules' = CyberSecRulesAfter(cyberSecRules, pw, validated)
    /\ op' = "ValidatePassword"
    /\ UNCHANGED sharedVars
    /\ UNCHANGED <<assignmentsFile, assignmentsCache, assignmentsLoaded,
                   poolLoaded, session, dbRuleReached, dbCalls, clientSat,
                   clientVis, carried, ruleChanges, sortedRules, panicked,
                   argPassword, argPreviousStates, argPreviousVisible>>

NextSessions ==
    \/ \E h \in Holders, d \in Difficulties : HolderNewRuleSet(h, d)
    \/ \E h \in Holders :
          \E pw \in PasswordsFor(RulesOf(rulePool, ruleSets[h])),
             prior \in PriorSamples(ruleSets[h]) :
              HolderValidatePassword(h, pw, prior, prior)

SpecSessions == InitSessions /\ [][NextSessions]_vars

(***************************************************************************)
(* Two POST /validate requests of one session in flight: each goroutine    *)
(* runs HandleValidate once, in steps between its accesses to the          *)
(* UserSession that getUserSession returned to both                        *)
(***************************************************************************)
InitCompletion ==
    /\ InitShared
    /\ assignmentsFile \in InstalledFiles
    /\ assignmentsCache = EmptyMap
    /\ assignmentsLoaded = FALSE
    /\ poolLoaded = FALSE
    /\ rulePool = <<>>
    /\ ruleSets = NoRuleSets
    /\ session = NewSession(1, "expert")
    /\ dbRuleReached = 0
    /\ dbCalls = <<>>
    /\ clientSat = JSONHeader({})
    /\ clientVis = JSONHeader({})
    /\ carried = FALSE
    /\ rules = <<>>
    /\ ruleChanges = EmptyAnalysis
    /\ sortedRules = <<>>
    /\ panicked = FALSE
    /\ op = "none"
    /\ argPassword = NoPassword
    /\ argPreviousStates = <<>>
    /\ argPreviousVisible = <<>>
    /\ cyberSecRules = ZeroCyberSecRules

\* HandleValidate lines 392-449: the session is looked up, the rule set is
\* built, the prior states are decoded, ValidatePassword runs and the highest
\* newly satisfied rule is found
ValidateStart(p, pw, prior) ==
    /\ Running(p) = Idle
    /\ session.exists
    /\ RecordsOutcomes(cyberSecRules, pw)
    /\ LET assignments == loadAssignments
           pool == IF poolLoaded THEN rulePool ELSE Pool
           elements == RuleSetElements(pool, assignments, session.Difficulty)
           validated == ValidatePassword(RulesOf(pool, elements), pw, prior, prior)
           newly == {validated[i].ID : i \in {k \in DOMAIN validated :
                                                validated[k].NewlySatisfied}}
       IN /\ assignmentsCache' = assignments
          /\ assignmentsLoaded' = TRUE
          /\ poolLoaded' = TRUE
          /\ rulePool' = pool
          /\ ruleSets' = [ruleSets EXCEPT ![p] =
                 [i \in DOMAIN elements |-> [elements[i] EXCEPT !.val = validated[i]]]]
          /\ cyberSecRules' = CyberSecRulesAfter(cyberSecRules, pw, validated)
          /\ goroutines' = [goroutines EXCEPT ![p] =
                 [Idle EXCEPT !.fn = "HandleValidate", !.pc = "milestone?",
                              !.prior = prior, !.highest = SetMax(newly),
                              !.allSatisfied =
                                  GetSatisfiedCount(validated) = Len(validated)]]
    /\ UNCHANGED <<currentValues, wordleCache>>
    /\ UNCHANGED requestVars

\* line 452: shouldUpdateDB && highestNewlySatisfiedRule > userSession.MaxRule
MilestoneCheck(p) ==
    /\ Running(p).pc = "milestone?"
    /\ goroutines' = [goroutines EXCEPT ![p].pc =
           IF Running(p).highest > session.MaxRule THEN "MaxRule =" ELSE "completed?"]
    /\ UNCHANGED <<currentValues, wordleCache, assignmentsCache, assignmentsLoaded,
                   cyberSecRules>>
    /\ UNCHANGED requestVars
    /\ UNCHANGED <<poolLoaded, rulePool, ruleSets>>

\* lines 453-466: MaxRule is assigned and the milestone is written
MilestoneUpdate(p) ==
    /\ Running(p).pc = "MaxRule ="
    /\ session' = [session EXCEPT !.MaxRule = Running(p).highest]
    /\ dbRuleReached' = UpdateUserProgress(session.UserID, Running(p).highest,
                                           dbRuleReached)
    /\ dbCalls' = Append(dbCalls, Running(p).highest)
    /\ goroutines' = [goroutines EXCEPT ![p].pc = "completed?"]
    /\ UNCHANGED <<currentValues, wordleCache, assignmentsCache, assignmentsLoaded,
                   cyberSecRules>>
    /\ UNCHANGED <<assignmentsFile, clientSat, clientVis, carried, rules,
                   ruleChanges, sortedRules, panicked, op, argPassword,
                   argPreviousStates, argPreviousVisible>>
    /\ UNCHANGED <<poolLoaded, rulePool, ruleSets>>

\* line 471: satisfiedCount == rulesLen && !userSession.IsCompleted
CompletionCheck(p) ==
    /\ Running(p).pc = "completed?"
    /\ goroutines' = [goroutines EXCEPT ![p].pc =
           IF Running(p).allSatisfied /\ ~session.IsCompleted
           THEN "IsCompleted =" ELSE "respond"]
    /\ UNCHANGED <<currentValues, wordleCache, assignmentsCache, assignmentsLoaded,
                   cyberSecRules>>
    /\ UNCHANGED requestVars
    /\ UNCHANGED <<poolLoaded, rulePool, ruleSets>>

\* lines 472-480: IsCompleted is set and the completion is written with the
\* rule count
CompletionUpdate(p) ==
    /\ Running(p).pc = "IsCompleted ="
    /\ session' = [session EXCEPT !.IsCompleted = TRUE]
    /\ dbRuleReached' = UpdateUserProgress(session.UserID, Len(ruleSets[p]),
                                           dbRuleReached)
    /\ dbCalls' = Append(dbCalls, Len(ruleSets[p]))
    /\ goroutines' = [goroutines EXCEPT ![p].pc = "respond", ![p].completed = TRUE]
    /\ UNCHANGED <<currentValues, wordleCache, assignmentsCache, assignmentsLoaded,
                   cyberSecRules>>
    /\ UNCHANGED <<assignmentsFile, clientSat, clientVis, carried, rules,
                   ruleChanges, sortedRules, panicked, op, argPassword,
                   argPreviousStates, argPreviousVisible>>
    /\ UNCHANGED <<poolLoaded, rulePool, ruleSets>>

\* lines 483-530: the changes are analyzed, the page fragment is rendered and
\* the states go back to the browser, which stores them
ValidateReturn(p) ==
    /\ Running(p).pc = "respond"
    /\ LET validated == RulesOf(rulePool, ruleSets[p])
       IN /\ rules' = validated
          /\ ruleChanges' = analyzeRuleChanges(validated, Running(p).prior,
                                               Running(p).prior)
          /\ sortedRules' = GetSortedVisibleRules(validated)
          /\ clientSat' = EncodeSatisfied(validated)
          /\ clientVis' = EncodeVisible(validated)
    /\ ruleSets' = [ruleSets EXCEPT ![p] = <<>>]
    /\ goroutines' = [goroutines EXCEPT ![p].pc = "returned"]
    /\ op' = "HandleValidate"
    /\ UNCHANGED <<currentValues, wordleCache, assignmentsCache, assignmentsLoaded,
                   cyberSecRules>>
    /\ UNCHANGED <<assignmentsFile, session, dbRuleReached, dbCalls, carried,
                   panicked, argPassword, argPreviousStates, argPreviousVisible>>
    /\ UNCHANGED <<poolLoaded, rulePool>>

NextCompletion ==
    \/ \E p \in Goroutines :
          \E pw \in PasswordsFor(NewRuleSet(loadAssignments, session.Difficulty)),
             prior \in PriorSamples(NewRuleSet(loadAssignments, session.Difficulty)) :
              ValidateStart(p, pw, prior)
    \/ \E p \in Goroutines : MilestoneCheck(p)
    \/ \E p \in Goroutines : MilestoneUpdate(p)
    \/ \E p \in Goroutines : CompletionCheck(p)
    \/ \E p \in Goroutines : CompletionUpdate(p)
    \/ \E p \in Goroutines : ValidateReturn(p)

SpecCompletion == InitCompletion /\ [][NextCompletion]_vars

(***************************************************************************)
(* Properties                                                              *)
(***************************************************************************)
InSeq(x, s) == \E k \in DOMAIN s : s[k] = x

\* the prior flags ValidatePassword and analyzeRuleChanges were called with
OldSatisfied(i) == i <= Len(argPreviousStates) /\ argPreviousStates[i]
OldVisible(i) == i <= Len(argPreviousVisible) /\ argPreviousVisible[i]

\* C1: between two consecutive HandleValidate passes of which the second got
\* back the states the first one returned, no visible rule becomes invisible
MonotonicVisibility ==
    [][(op = "HandleValidate" /\ op' = "HandleValidate" /\ carried')
        => \A i \in DOMAIN rules :
              rules[i].IsVisible
                 => /\ i \in DOMAIN rules'
                    /\ rules'[i].ID = rules[i].ID
                    /\ rules'[i].IsVisible]_vars

\* a carried pass after which a rule is visible although its predecessor is
\* not satisfied: the rule is visible only because it was visible before
MonotonicVisibilityWitness ==
    /\ op = "HandleValidate" /\ carried
    /\ \E i \in DOMAIN rules :
          /\ i > 1 /\ rules[i].IsVisible /\ ~rules[i].NewlyRevealed
          /\ ~rules[i - 1].IsSatisfied
          /\ rules[1].ID # 1

\* a direct call has returned
Called == op \in {"ValidatePassword", "analyzeRuleChanges"}

\* C2: after a ValidatePassword pass, a rule at a position past the first
\* whose prior visible entry is false or missing is visible only if the
\* password is non-empty, every earlier rule is visible and the rule just
\* before it is satisfied
SequentialGating ==
    op = "ValidatePassword"
       => \A i \in DOMAIN rules :
             (i > 1 /\ ~OldVisible(i) /\ rules[i].IsVisible)
                => /\ argPassword.len > 0
                   /\ \A j \in 1..(i - 1) : rules[j].IsVisible
                   /\ rules[i - 1].IsSatisfied

\* the third rule is revealed by the pass although the priors say the second
\* one was not visible
SequentialGatingWitness ==
    /\ op = "ValidatePassword" /\ Len(rules) >= 3
    /\ ~OldVisible(3) /\ ~OldVisible(2) /\ rules[3].IsVisible

\* C3: after a ValidatePassword pass on a non-empty rule set the first rule
\* is visible
FirstRuleVisible ==
    (op = "ValidatePassword" /\ Len(rules) > 0) => rules[1].IsVisible

\* the first rule is not rule 1, the password is empty and there is no prior
\* state
FirstRuleVisibleWitness ==
    /\ op = "ValidatePassword" /\ Len(rules) > 0
    /\ rules[1].ID # 1 /\ argPassword.len = 0
    /\ argPreviousStates = <<>> /\ argPreviousVisible = <<>>
    /\ rules[1].IsVisible

\* position of the first rule whose predicate rejects the password
FirstFailing ==
    LET F == {i \in DOMAIN rules : ~Validator(rules[i].ID, argPassword)}
    IN IF F = {} THEN Len(rules) + 1
       ELSE CHOOSE i \in F : \A j \in F : i <= j

\* no prior flag is set: the prior sequences are absent or all false
NoPriorState ==
    \A i \in DOMAIN rules : ~OldSatisfied(i) /\ ~OldVisible(i)

\* C4: a pass with a non-empty password and no prior state leaves visible
\* exactly the rules up to and including the first one whose predicate fails
SamePassGating ==
    (op = "ValidatePassword" /\ NoPriorState /\ argPassword.len > 0)
       => \A i \in DOMAIN rules : rules[i].IsVisible <=> i <= FirstFailing

\* one pass reveals three rules and stops at the third
SamePassGatingWitness ==
    /\ op = "ValidatePassword" /\ NoPriorState /\ argPassword.len > 0
    /\ Len(rules) >= 3 /\ FirstFailing = 3
    /\ rules[2].NewlyRevealed /\ rules[3].NewlyRevealed

\* C5: after a ValidatePassword pass on a freshly built rule set
\* NewlySatisfied is satisfied-and-not-satisfied-before and NewlyRevealed is
\* visible-and-not-visible-before, a missing prior entry counting as false
DerivedFlags ==
    op = "ValidatePassword"
       => \A i \in DOMAIN rules :
             /\ rules[i].NewlySatisfied <=> (rules[i].IsSatisfied /\ ~OldSatisfied(i))
             /\ rules[i].NewlyRevealed <=> (rules[i].IsVisible /\ ~OldVisible(i))

\* one rule is newly satisfied with no prior entry, another is satisfied but
\* was satisfied before
DerivedFlagsWitness ==
    /\ op = "ValidatePassword"
    /\ \E i, j \in DOMAIN rules :
          /\ i > Len(argPreviousStates) /\ rules[i].NewlySatisfied
          /\ OldSatisfied(j) /\ rules[j].IsSatisfied /\ ~rules[j].NewlySatisfied

\* x comes before y in the display order
DisplayedBefore(x, y) ==
    \/ ~x.IsSatisfied /\ y.IsSatisfied
    \/ x.IsSatisfied = y.IsSatisfied /\ x.ID < y.ID

\* C6: GetSortedVisibleRules returns the visible rules, each once and no
\* other, unsatisfied before satisfied and by ascending ID within each group
SortedVisibleOrder ==
    Called
       => /\ Len(sortedRules) = Cardinality({i \in DOMAIN rules : rules[i].IsVisible})
          /\ \A i \in DOMAIN rules : rules[i].IsVisible <=> InSeq(rules[i], sortedRules)
          /\ \A a, b \in DOMAIN sortedRules :
                a < b => DisplayedBefore(sortedRules[a], sortedRules[b])

\* an invisible rule is left out and the visible ones are not in rule order
SortedVisibleOrderWitness ==
    /\ Called
    /\ Len(sortedRules) >= 2 /\ Len(sortedRules) < Len(rules)
    /\ sortedRules[1].ID > sortedRules[2].ID

\* C7: a rule's ID is in NewlySatisfied exactly when it went from not
\* satisfied (or no prior entry) to satisfied, and in NewlyUnsatisfied exactly
\* when it went from satisfied to not satisfied
SatisfactionChangeSets ==
    Called
       => \A i \in DOMAIN rules :
             /\ InSeq(rules[i].ID, ruleChanges.NewlySatisfied)
                   <=> (~OldSatisfied(i) /\ rules[i].IsSatisfied)
             /\ InSeq(rules[i].ID, ruleChanges.NewlyUnsatisfied)
                   <=> (OldSatisfied(i) /\ ~rules[i].IsSatisfied)

\* C8: analyzeRuleChanges on the result of ValidatePassword, with the prior
\* visible sequence ValidatePassword was given, reports no hidden rule
NeverNewlyHidden ==
    op = "ValidatePassword" => ruleChanges.NewlyHidden = <<>>

\* a rule with a true prior visible entry whose gate is closed in this pass
NeverNewlyHiddenWitness ==
    /\ op = "ValidatePassword" /\ argPassword.len = 0
    /\ \E i \in DOMAIN rules :
          i > 1 /\ OldVisible(i) /\ ~rules[i - 1].IsVisible /\ rules[i].IsVisible

\* C9: a rule's ID is in NewlyVisible exactly when it is visible and its
\* prior visible entry is false or absent, in NewlyHidden exactly when it is
\* not visible and its prior entry is true, and never in both
VisibilityChangeSets ==
    Called
       => \A i \in DOMAIN rules :
             /\ InSeq(rules[i].ID, ruleChanges.NewlyVisible)
                   <=> (rules[i].IsVisible /\ ~OldVisible(i))
             /\ InSeq(rules[i].ID, ruleChanges.NewlyHidden)
                   <=> (~rules[i].IsVisible /\ OldVisible(i))
             /\ ~(/\ InSeq(rules[i].ID, ruleChanges.NewlyVisible)
                  /\ InSeq(rules[i].ID, ruleChanges.NewlyHidden))

\* one rule is reported hidden and a visible rule past the end of the prior
\* sequence is reported newly visible
VisibilityChangeSetsWitness ==
    /\ op = "analyzeRuleChanges"
    /\ ruleChanges.NewlyHidden # <<>>
    /\ \E i \in DOMAIN rules :
          /\ i > Len(argPreviousVisible) /\ rules[i].IsVisible
          /\ InSeq(rules[i].ID, ruleChanges.NewlyVisible)

\* C10: HasChanges is true exactly when one of the four lists is non-empty;
\* for an empty rule set the lists are empty, HasChanges is false and
\* GetSortedVisibleRules returns the empty sequence
HasChangesExact ==
    Called
       => /\ ruleChanges.HasChanges
                <=> \/ ruleChanges.NewlySatisfied # <<>>
                    \/ ruleChanges.NewlyUnsatisfied # <<>>
                    \/ ruleChanges.NewlyVisible # <<>>
                    \/ ruleChanges.NewlyHidden # <<>>
          /\ rules = <<>>
                => /\ ruleChanges = EmptyAnalysis
                   /\ sortedRules = <<>>

\* the only change is a rule that is no longer satisfied
HasChangesExactWitness ==
    /\ Called /\ ruleChanges.HasChanges
    /\ ruleChanges.NewlyUnsatisfied # <<>>
    /\ ruleChanges.NewlySatisfied = <<>>
    /\ ruleChanges.NewlyVisible = <<>>
    /\ ruleChanges.NewlyHidden = <<>>

\* C11: in a HandleValidate pass that follows a HandleValidate pass and got
\* back the states that pass returned, a rule that was visible stays visible
\* and is satisfied exactly when its predicate accepts the new password; it
\* is flagged NewlySatisfied and listed in NewlySatisfied exactly when it went
\* from not satisfied to satisfied, listed in NewlyUnsatisfied exactly when
\* it went from satisfied to not satisfied, and in neither list when its
\* satisfied value did not change
SatisfactionTransitions ==
    [][\A pw \in PasswordsFor(rules) :
          (op = "HandleValidate" /\ HandleValidate(pw, clientSat, clientVis))
             => \A i \in DOMAIN rules :
                   rules[i].IsVisible
                      => LET was == rules[i].IsSatisfied
                             now == Validator(rules[i].ID, pw)
                             id == rules[i].ID
                         IN /\ i \in DOMAIN rules' /\ rules'[i].ID = id
                            /\ rules'[i].IsVisible
                            /\ rules'[i].IsSatisfied = now
                            /\ rules'[i].NewlySatisfied <=> (~was /\ now)
                            /\ InSeq(id, ruleChanges'.NewlySatisfied) <=> (~was /\ now)
                            /\ InSeq(id, ruleChanges'.NewlyUnsatisfied) <=> (was /\ ~now)]_vars

\* a carried pass flags rule 25 newly satisfied and writes no milestone: the
\* session saw it newly satisfied in an earlier pass, the pass before this one
\* left it unsatisfied, and the rule before it stayed satisfied in this pass
SatisfactionTransitionsWitness ==
    /\ op = "HandleValidate" /\ carried /\ dbCalls = <<>>
    /\ \E i \in DOMAIN rules :
          /\ i > 1 /\ rules[i].ID = 25 /\ rules[i].NewlySatisfied
          /\ InSeq(25, ruleChanges.NewlySatisfied)
          /\ rules[i - 1].IsSatisfied /\ ~rules[i - 1].NewlySatisfied
          /\ ~InSeq(rules[i - 1].ID, ruleChanges.NewlySatisfied)
          /\ ruleChanges.NewlyUnsatisfied = <<>>

\* C12: a ValidatePassword pass whose prior sequences are absent, shorter or
\* longer than the rule set gives every rule the flags it gets from prior
\* sequences of the rule set's length in which the missing entries are false
\* and the surplus ones are dropped; and HandleValidate passes an absent
\* sequence for a missing or undecodable header, and for a decodable one the
\* value stored under each rule's ID, false when there is none
MalformedPriorTolerated ==
    op \in {"ValidatePassword", "DecodeAndValidate"}
       => /\ ~panicked
          /\ rules = ValidatePassword(FreshRules(rules), argPassword,
                                      [i \in DOMAIN rules |-> OldSatisfied(i)],
                                      [i \in DOMAIN rules |-> OldVisible(i)])
          /\ op = "DecodeAndValidate"
                => /\ clientSat \in LostHeaders => argPreviousStates = <<>>
                   /\ clientVis \in LostHeaders => argPreviousVisible = <<>>
                   /\ clientVis \notin LostHeaders
                         => /\ Len(argPreviousVisible) = Len(rules)
                            /\ \A i \in DOMAIN rules :
                                  argPreviousVisible[i]
                                     <=> <<Itoa(rules[i].ID), TRUE>> \in clientVis.map

\* a pass whose prior visible sequence is shorter than the rule set and ends
\* in true, and whose prior satisfied sequence is longer than the rule set:
\* the rule past the end of the visible sequence is not shown
MalformedPriorToleratedWitness ==
    /\ op = "ValidatePassword" /\ Len(rules) >= 2
    /\ Len(argPreviousVisible) = Len(rules) - 1
    /\ argPreviousVisible[Len(argPreviousVisible)]
    /\ Len(argPreviousStates) > Len(rules)
    /\ ~rules[Len(rules)].IsVisible

\* a request with an undecodable satisfied header and a visible header that
\* lacks one rule's key and has a true entry for an ID outside the rule set
MalformedPriorHeaderWitness ==
    /\ op = "DecodeAndValidate" /\ Len(rules) >= 2
    /\ clientSat = BadHeader /\ clientVis.kind = "json"
    /\ <<Itoa(AbsentID), TRUE>> \in clientVis.map
    /\ \E i \in DOMAIN rules :
          /\ \A b \in BOOLEAN : <<Itoa(rules[i].ID), b>> \notin clientVis.map
          /\ ~rules[i].IsVisible
    /\ \E i \in DOMAIN rules : i > 1 /\ argPreviousVisible[i]

\* the difficulty key of the call is a key of the decoded assignments file
KnownDifficulty ==
    /\ assignmentsFile.kind = "ok"
    /\ session.Difficulty \in DOMAIN assignmentsFile.map

\* C13: NewRuleSet called with a difficulty key that the assignments file
\* does not have, or while the file is missing or undecodable, returns the
\* pool's rules of category "basic" in pool order, which are not empty, and
\* does not fail
UnknownDifficultyFallsBack ==
    (op = "NewRuleSet" /\ ~KnownDifficulty)
       => /\ ~panicked
          /\ rules # <<>>
          /\ [i \in DOMAIN rules |-> rules[i].ID] = AscendingSeq(PoolIDs \cap (1..6))
          /\ \A i \in DOMAIN rules : rules[i] = NewRule(rules[i].ID)
                                     /\ rules[i].Category = "basic"

\* the file is undecodable and the fallback returned rule 1
UnknownDifficultyFallsBackWitness ==
    /\ op = "NewRuleSet" /\ assignmentsFile = FileUndecodable
    /\ session.Difficulty = "expert"
    /\ Len(rules) > 0 /\ rules[1].ID = 1

\* C14 (the claim as stated): when the predicate of a rule fails in a
\* ValidatePassword pass, the pass still completes, the rule is left
\* unsatisfied and every other rule has the visibility and satisfaction of a
\* pass in which that predicate returned false
PredicateFailureContained ==
    [][LET validated == ValidatePassword(FreshRules(rules),
                                         Seen(cyberSecRules, argPassword),
                                         argPreviousStates, argPreviousVisible)
       IN (ValidateArgs /\ FailingPosition(validated, cyberSecRules, argPassword) # 0)
             => /\ op' = "ValidatePassword"
                /\ rules' = validated
                /\ ~cyberSecRules'.mutexHeld]_vars

\* C15 (the claim as stated): a ValidatePassword pass on a freshly built rule
\* set gives the flags that the earlier pass with the same password and prior
\* sequences gave, whatever passes ran in between
EnginePure ==
    [][(ValidateArgs /\ rules # FreshRules(rules)) => rules' = rules]_vars

\* C16: the rules NewRuleSet returns are in strictly ascending ID order, so no
\* ID occurs twice; with a known difficulty key they are exactly the assigned
\* IDs that the pool has, with an unknown key the basic rules of the pool
RuleSetOrdering ==
    op = "NewRuleSet"
       => /\ \A i, j \in DOMAIN rules : i < j => rules[i].ID < rules[j].ID
          /\ {rules[i].ID : i \in DOMAIN rules}
                = IF session.Difficulty \in DOMAIN assignmentsCache
                  THEN LET ids == assignmentsCache[session.Difficulty]
                       IN {ids[k] : k \in DOMAIN ids} \cap PoolIDs
                  ELSE {id \in PoolIDs : NewRule(id).Category = "basic"}

\* an assigned list that is out of order and repeats an ID gave two rules
RuleSetOrderingWitness ==
    /\ op = "NewRuleSet"
    /\ session.Difficulty \in DOMAIN assignmentsCache
    /\ LET ids == assignmentsCache[session.Difficulty]
       IN /\ \E k, l \in DOMAIN ids : k < l /\ ids[k] > ids[l]
          /\ \E k, l \in DOMAIN ids : k # l /\ ids[k] = ids[l]
    /\ Len(rules) = 2

\* C17 (the claim as stated): a refresh holds the write lock of a shared
\* value only while it assigns the new value, never while it computes or
\* fetches it
WritersOnlySwap ==
    \A q \in Goroutines :
        (Running(q).fn \in Refreshers /\ Running(q).mode = "W")
           => Running(q).pc = "assign"

\* the goroutines holding the mutex that goroutine p is waiting for
Blockers(p) ==
    IF Running(p).mode = "want W"
    THEN (Writers(Running(p).mutex) \cup Readers(Running(p).mutex)) \ {p}
    ELSE IF Running(p).mode = "want R"
    THEN Writers(Running(p).mutex) \ {p}
    ELSE {}

\* C18 (the claim as stated): a goroutine serving a validation request holds
\* shared state in read mode only, and when it waits for a lock the holder
\* is a refresh, never another validation request
ValidationSharedMode ==
    \A p \in Goroutines :
        Running(p).fn = "HandleValidate"
           => /\ Running(p).mode # "W"
              /\ \A q \in Blockers(p) : Running(q).fn # "HandleValidate"

\* C19 (the claim as stated): no goroutine serving a validation request is
\* ever inside the HTTP request of fetchWordleAnswer
NoNetworkInValidation ==
    \A p \in Goroutines :
        Running(p).fn = "HandleValidate" => Running(p).pc # "fetchWordleAnswer"

\* C20: a validator of rules 13, 15, 17, 18, 19 called while the value it
\* reads is unset returns false, whatever the password contains
FailClosed ==
    \A p \in Goroutines :
        (Running(p).fn = "Validator" /\ Running(p).value = Unset)
           => ~Running(p).result

\* ValidateChessMove was called without a best move on a password that
\* contains a word, and returned false
FailClosedWitness ==
    /\ Running(1).fn = "Validator" /\ Running(1).last = 19
    /\ Running(1).value = Unset /\ currentValues["currentBestMove"] = Unset
    /\ Running(1).text # {}
    /\ ~Running(1).result

\* the Validator calls of the ValidatePassword pass that has just returned
PassCalls ==
    ValidatorCallsFrom(FreshRules(rules), 1, argPassword, argPreviousStates,
                       argPreviousVisible)

\* C21: in a ValidatePassword pass the Validator of a rule is called once if
\* the rule is visible after its visibility update and not at all otherwise
PredicateOncePerVisibleRule ==
    op = "ValidatePassword"
       => \A i \in DOMAIN rules :
             Cardinality({k \in DOMAIN PassCalls : PassCalls[k] = i})
                = IF rules[i].IsVisible THEN 1 ELSE 0

\* a pass over three rules called the first two Validators and left the
\* third rule invisible and uncalled
PredicateOncePerVisibleRuleWitness ==
    /\ op = "ValidatePassword"
    /\ Len(rules) = 3
    /\ PassCalls = <<1, 2>>
    /\ rules[2].IsVisible /\ ~rules[3].IsVisible

\* C22: the pool is built and the assignments file is read at most once in
\* the life of the process, whatever requests run at the same time: once a
\* cache is loaded no step builds or reads it again and its value stays, the
\* first load stores what the file held then (an empty mapping when the file
\* could not be opened or decoded), and every call returns the cached value
LoadedOnce ==
    [][/\ poolLoaded => (poolLoaded' /\ ~\E p \in Goroutines : PoolBuild(p))
       /\ assignmentsLoaded
             => /\ assignmentsLoaded' /\ assignmentsCache' = assignmentsCache
                /\ ~\E p \in Goroutines : LoadAssignmentsRead(p)
       /\ (~assignmentsLoaded /\ assignmentsLoaded')
             => assignmentsCache' = ReadAssignmentsFile
       /\ \A p \in Goroutines :
             (Running(p).pc = "loadAssignments" /\ goroutines'[p].pc = "Pool")
                => goroutines'[p].got = assignmentsCache']_vars

\* both goroutines are past loadAssignments with the mapping of the failed
\* first load, although the file on disk now has an entry, and one of them
\* waits for the other in Pool, whose cache is loaded
LoadedOnceWitness ==
    /\ assignmentsLoaded /\ poolLoaded
    /\ assignmentsCache = EmptyMap
    /\ assignmentsFile.kind = "ok" /\ assignmentsFile.map # EmptyMap
    /\ Running(1).pc = "Pool" /\ Running(1).mode = "W"
    /\ Running(2).pc = "Pool" /\ Running(2).mode = "want W"
    /\ Running(1).got = EmptyMap /\ Running(2).got = EmptyMap

\* the TRUE entries of a sequence of flags are its first k entries
PrefixShaped(flags) ==
    \A i \in DOMAIN flags : flags[i] => \A j \in 1..(i - 1) : flags[j]

\* the header of a rule set whose first k rules are visible
VisibleHeader(rs, k) ==
    JSONHeader({<<Itoa(rs[i].ID), i <= k>> : i \in DOMAIN rs})

\* the X-Visible-States header is missing, undecodable, or what the previous
\* response encoded for a rule set whose visible rules were a prefix
FaithfulVisibleHeader ==
    \/ clientVis \in LostHeaders
    \/ \E k \in 0..Len(rules) : clientVis = VisibleHeader(rules, k)

\* C23: after a ValidatePassword pass on a freshly built rule set the
\* visible rules are the first k rules for some k >= 1, when the pass had no
\* prior visibility or the prior visibility of a pass with this property,
\* given as a sequence or decoded from the request's header
VisiblePrefix ==
    (\/ op = "ValidatePassword" /\ PrefixShaped(argPreviousVisible)
     \/ op = "DecodeAndValidate" /\ FaithfulVisibleHeader)
       => (rules # <<>>
              => /\ rules[1].IsVisible
                 /\ PrefixShaped([i \in DOMAIN rules |-> rules[i].IsVisible]))

\* a request carried the header of two visible rules out of three, for a
\* rule set whose IDs are not its positions, and the pass left the second
\* rule unsatisfied: the first two rules are visible, the third is not
VisiblePrefixWitness ==
    /\ op = "DecodeAndValidate"
    /\ Len(rules) = 3 /\ rules[1].ID # 1
    /\ clientVis = VisibleHeader(rules, 2)
    /\ argPreviousVisible = <<TRUE, TRUE, FALSE>>
    /\ rules[1].IsSatisfied /\ ~rules[2].IsSatisfied
    /\ rules[2].IsVisible /\ ~rules[3].IsVisible

\* C24: after a ValidatePassword pass on a freshly built rule set every
\* satisfied rule is visible, whatever the password and the prior states, so
\* GetSatisfiedCount counts visible rules only and a pass that satisfies
\* every rule has made every rule visible
SatisfiedImpliesVisible ==
    op \in {"ValidatePassword", "DecodeAndValidate"}
       => /\ \A i \in DOMAIN rules : rules[i].IsSatisfied => rules[i].IsVisible
          /\ GetSatisfiedCount(rules)
                = Cardinality({i \in DOMAIN rules :
                                  rules[i].IsSatisfied /\ rules[i].IsVisible})
          /\ GetSatisfiedCount(rules) = Len(rules)
                => \A i \in DOMAIN rules : rules[i].IsVisible

\* the prior states marked the third rule satisfied and no rule visible, the
\* password matches the third rule's predicate, and the pass, which did not
\* reveal the third rule, left it unsatisfied and counted one rule
SatisfiedImpliesVisibleWitness ==
    /\ op = "ValidatePassword"
    /\ Len(rules) = 3
    /\ argPreviousStates = <<FALSE, FALSE, TRUE>>
    /\ argPreviousVisible = <<>>
    /\ Validator(rules[3].ID, argPassword)
    /\ ~rules[3].IsVisible /\ ~rules[3].IsSatisfied
    /\ GetSatisfiedCount(rules) = 1

\* C25: in every HandleValidate pass the ids analyzeRuleChanges lists as
\* NewlySatisfied are the ids of the rules whose NewlySatisfied flag
\* ValidatePassword set, whatever prior state the request carried
AnalyzerAgreesWithFlags ==
    op = "HandleValidate"
       => {ruleChanges.NewlySatisfied[k] : k \in DOMAIN ruleChanges.NewlySatisfied}
             = {rules[i].ID : i \in {j \in DOMAIN rules : rules[j].NewlySatisfied}}

\* C26: the rule set a game handler builds with NewRuleSet has at least one
\* rule, whatever the session's difficulty key and the assignments file,
\* and HandlePasswordGame's access to the first rule does not fail
HandlerRuleSetNonEmpty ==
    /\ ~panicked
    /\ op \in {"HandlePasswordGame", "HandleValidate"} => rules # <<>>

\* C27: a RuleSet that NewRuleSet returns has every flag false whatever
\* passes ran on other RuleSets, and a ValidatePassword pass changes neither
\* the cached pool nor the RuleSet of another request
RuleSetsIsolated ==
    [][/\ op' = "NewRuleSet"
             => /\ rules' = FreshRules(rules')
                /\ \A h \in Holders :
                      ruleSets'[h] # ruleSets[h]
                         => RulesOf(rulePool', ruleSets'[h]) = rules'
       /\ \A h \in Holders :
             ruleSets'[h] = ruleSets[h]
                => RulesOf(rulePool', ruleSets'[h]) = RulesOf(rulePool, ruleSets[h])
       /\ poolLoaded => rulePool' = rulePool]_vars

\* the first request's pass satisfied and revealed rules of its RuleSet, and
\* the second request then built a RuleSet of the same rules, all flags
\* false, from the pool, which still has every flag false
RuleSetsIsolatedWitness ==
    /\ op = "NewRuleSet"
    /\ rulePool = Pool
    /\ Len(ruleSets[1]) = 2
    /\ \A i \in DOMAIN ruleSets[1] :
          /\ RuleAt(rulePool, ruleSets[1][i]).IsSatisfied
          /\ RuleAt(rulePool, ruleSets[1][i]).IsVisible
    /\ RulesOf(rulePool, ruleSets[2]) = FreshRules(RulesOf(rulePool, ruleSets[1]))

\* C28: over the HandleValidate calls of a session MaxRule never decreases,
\* and the rule-reached values passed to UpdateUserProgress, milestone and
\* completion updates alike, never decrease: not within one call and not
\* from the value the previous update of the user's row wrote
ProgressNeverBackwards ==
    [][(op' = "HandleValidate" /\ session.exists)
          => /\ session'.MaxRule >= session.MaxRule
             /\ \A i, j \in DOMAIN dbCalls' : i < j => dbCalls'[i] <= dbCalls'[j]
             /\ (dbCalls' # <<>> /\ session.UserID > 0)
                   => dbCalls'[1] >= dbRuleReached]_vars

\* C29: whatever the interleaving of the validate requests of one session,
\* at most one of them performs the completion update
CompletionOnce ==
    Cardinality({p \in Goroutines : Running(p).completed}) <= 1

\* rule 24 is in the rule set and satisfied: its Validator returned true
Rule24Satisfied(rs) == \E i \in DOMAIN rs : rs[i].ID = 24 /\ rs[i].IsSatisfied

\* C30: once Rule24RansomwareAttack has returned true in a pass of a
\* session, it returns true in every later pass of that session that calls
\* it, whatever passes and registrations of other sessions came in between
Rule24Latches ==
    [][(/\ ValidateArgs
        /\ op = "ValidatePassword" /\ Rule24Satisfied(rules)
        /\ op' = "ValidatePassword" /\ Invoked(rules', 24))
          => Rule24Satisfied(rules')]_vars

====
